---- MODULE Spec2Model ----
(***************************************************************************)
(* Scheduling and orchestration engine of NewsDigestApp_Lite.              *)
(*                                                                         *)
(* All engines and loops are asyncio tasks on one event loop, so a step of *)
(* the model is the code a task (or a request handler) runs between two    *)
(* suspension points (await of the pipeline, of a sleep, of the digest     *)
(* collaborators).  Handlers are written as functions from a state record  *)
(* S (one field per variable) to the state record they leave behind, in    *)
(* the order of the statements of the Python code; an action applies one   *)
(* handler to the current state.                                           *)
(***************************************************************************)
EXTENDS Integers, Sequences, FiniteSets, TLC

VARIABLES
    db,         \* channel_sources table: key -> the record of the channel, if any
    sheet,      \* the external channel list: [res, chans], how the fetch ends and
                \* the channels the sheets list
    enabled,    \* config.app.parser_status: the enabled source types
    inst,       \* BaseScheduler instances: id -> fields of the instance
    contSched,  \* SchedulerManager.continuous_scheduler (0 is None)
    spSched,    \* SchedulerManager.single_pass_scheduler (0 is None)
    digSched,   \* SchedulerManager.digest_scheduler (0 is None)
    mtasks,     \* SchedulerManager.tasks: key -> [held, task]: whether the key is
                \* present and the task it holds (0 once that task is done)
    mt,         \* the asyncio tasks running SchedulerManager._run_scheduler
    loop,       \* the asyncio tasks running BaseScheduler._process_source_task
    dg,         \* DigestScheduler instances
    run,        \* executions of DigestScheduler.execute_digest_with_retry in progress
    stopAll,    \* SchedulerManager.stop_all in progress: [on, rem]
    env,        \* what the collaborators can answer, [poll, build, publish], and whether
                \* the history fields (of inst, run and last) are recorded, [track]
                \* and the success statistics of the channels are kept, [stats]
    budget,     \* events the environment may still inject: requests, failing polls
    last        \* outcome of the last request made to the system (observation only)

vars == <<db, sheet, enabled, inst, contSched, spSched, digSched, mtasks, mt,
          loop, dg, run, stopAll, env, budget, last>>

(***************************************************************************)
(* Bounds of the model.                                                    *)
(***************************************************************************)
MaxLoops == 3      \* source-loop tasks alive at once
MaxMgr == 3        \* manager tasks alive at once
MaxInst == 2       \* scheduler instances alive at once
MaxRuns == 2       \* digest executions in progress at once
MaxReq == 4        \* events the environment injects in a run: requests, failing polls
MaxOrphans == 1    \* cron timers a DigestScheduler instance has lost the handle of
MaxWindow == 4     \* returned channels remembered per source type
MaxCount == 2      \* successful polls counted per channel
MaxDigs == 2       \* DigestScheduler instances alive at once
MaxItems == 10     \* news items counted per channel
ScoreStep == 2520  \* the score 0.2 in the integer unit of the scores: a common multiple of 1..MaxItems

(***************************************************************************)
(* Program constants.                                                      *)
(***************************************************************************)
FailureThreshold == 3
MaxRetries == 3


SourceSet == {"telegram", "twitter"}
SourceOrder == <<"twitter", "telegram">>
Chans == {1, 2, 3, 4}
SrcOf(c) == IF c <= 3 THEN "telegram" ELSE "twitter"
ChanOrder == <<1, 2, 3, 4>>

LoopIds == 1..MaxLoops
MgrIds == 1..MaxMgr
InstIds == 1..MaxInst
RunIds == 1..MaxRuns
DigIds == 1..MaxDigs
Keys == {"continuous", "single_pass", "digest_publisher"}
DigestTypes == {"daily", "weekly"}

St == [db |-> db, sheet |-> sheet, enabled |-> enabled, inst |-> inst,
       contSched |-> contSched, spSched |-> spSched, digSched |-> digSched,
       mtasks |-> mtasks, mt |-> mt, loop |-> loop, dg |-> dg, run |-> run,
       stopAll |-> stopAll, env |-> env, budget |-> budget, last |-> last]

NoLoop == [st |-> "free", inst |-> 0, src |-> "telegram", chan |-> 0]
NoMgr == [st |-> "free", kind |-> "continuous", target |-> 0, cancel |-> FALSE]
NoInst == [kind |-> "none", running |-> FALSE,
           cursor |-> [s \in SourceSet |-> 0],
           chans |-> [s \in SourceSet |-> <<>>],
           tasks |-> [s \in SourceSet |-> 0],
           dp |-> 0, syncHeld |-> FALSE, syncLost |-> FALSE,
           starts |-> 0, stopped |-> FALSE, visits |-> [c \in Chans |-> 0],
           atStart |-> {}, hooks |-> 0,
           handed |-> [s \in SourceSet |-> <<>>]]
\* a DigestScheduler as __init__ leaves it
NoDig == [processing |-> FALSE, running |-> FALSE, sched |-> "none", orphans |-> 0]
NoRun == [st |-> "free", d |-> 0, type |-> "daily", attempt |-> 0, host |-> 0,
          pubs |-> 0, marks |-> 0, fails |-> 0, news |-> {}, marked |-> {}]
\* no row of channel_sources has the key
NoChan == [exists |-> FALSE, active |-> FALSE, fc |-> 0, sc |-> 0, items |-> 0,
           avg |-> 0, deacts |-> 0]
\* a row as sync_channels_from_sheets creates it (lines 812-824)
NewChan == [NoChan EXCEPT !.exists = TRUE, !.active = TRUE]
\* a row with the given is_active and failure_count and no success recorded
Chan(active, fc) == [NewChan EXCEPT !.active = active, !.fc = fc]

NoLast == [op |-> "none", res |-> "none", pubs |-> 0, marks |-> 0, fails |-> 0,
           attempts |-> 0, marked |-> {}]

Min(A) == CHOOSE x \in A : \A y \in A : x <= y

\* History fields record what happened and are read by no handler; they are
\* kept only in the specifications whose properties speak of the past.
Note(S, old, new) == IF S.env.track THEN new ELSE old

(***************************************************************************)
(* Channel Directory                                                       *)
(***************************************************************************)
\* history: the last MaxWindow channels _get_next_channel returned for a source
\* type since the cursor or the active list was last changed by something else
Window(h) == IF Len(h) > MaxWindow THEN Tail(h) ELSE h

Cycle(S, i) == S.inst[i].kind = "continuous"

\* [ch for ch in channels if ch.is_active]: the records of the list are the
\* session's own objects, so is_active is read from the table
ActiveChannels(S, i, s) ==
    SelectSeq(S.inst[i].chans[s], LAMBDA c : S.db[c].active)

\* _get_next_channel that stores the index it read instead of the next one
GetNextChannelInPlace(S, i, s) ==
    LET active == ActiveChannels(S, i, s)
        cur == S.inst[i].cursor[s]
        idx == IF cur >= Len(active) THEN 0 ELSE cur
    IN  IF active = <<>> THEN [S |-> S, ch |-> 0]
        ELSE IF cur >= Len(active) /\ ~Cycle(S, i) THEN [S |-> S, ch |-> 0]
        ELSE [S |-> [S EXCEPT !.inst[i].cursor[s] = idx,
                              !.inst[i].handed[s] =
                                  Note(S, @, Window(Append(@, active[idx + 1])))],
              ch |-> active[idx + 1]]

\* _get_next_channel that rewinds the cursor when a single pass is exhausted
GetNextChannelRewinding(S, i, s) ==
    LET channels == S.inst[i].chans[s]
        active == ActiveChannels(S, i, s)
        cur == S.inst[i].cursor[s]
        idx == IF cur >= Len(active) THEN 0 ELSE cur
    IN  IF channels = <<>> THEN [S |-> S, ch |-> 0]
        ELSE IF active = <<>> THEN [S |-> S, ch |-> 0]
        ELSE IF cur >= Len(active) /\ ~Cycle(S, i)
             THEN [S |-> [S EXCEPT !.inst[i].cursor[s] = 0], ch |-> 0]
        ELSE [S |-> [S EXCEPT !.inst[i].cursor[s] = idx + 1,
                              !.inst[i].handed[s] =
                                  Note(S, @, Window(Append(@, active[idx + 1])))],
              ch |-> active[idx + 1]]

\* the selection with one index shared by the source types
GetNextChannelSharedIndex(S, i, s) ==
    LET channels == S.inst[i].chans[s]
        active == ActiveChannels(S, i, s)
        cur == S.inst[i].cursor[s]
        idx == IF cur >= Len(active) THEN 0 ELSE cur
    IN  IF channels = <<>> THEN [S |-> S, ch |-> 0]
        ELSE IF active = <<>> THEN [S |-> S, ch |-> 0]
        ELSE IF cur >= Len(active) /\ ~Cycle(S, i) THEN [S |-> S, ch |-> 0]
        ELSE [S |-> [S EXCEPT !.inst[i].cursor = [s2 \in SourceSet |-> idx + 1],
                              !.inst[i].handed[s] =
                                  Note(S, @, Window(Append(@, active[idx + 1])))],
              ch |-> active[idx + 1]]

\* the selection indexing the whole list of the source type with the cursor
GetNextChannelUnfiltered(S, i, s) ==
    LET channels == S.inst[i].chans[s]
        active == ActiveChannels(S, i, s)
        cur == S.inst[i].cursor[s]
        idx == IF cur >= Len(active) THEN 0 ELSE cur
    IN  IF channels = <<>> THEN [S |-> S, ch |-> 0]
        ELSE IF active = <<>> THEN [S |-> S, ch |-> 0]
        ELSE IF cur >= Len(active) /\ ~Cycle(S, i) THEN [S |-> S, ch |-> 0]
        ELSE [S |-> [S EXCEPT !.inst[i].cursor[s] = idx + 1,
                              !.inst[i].handed[s] =
                                  Note(S, @, Window(Append(@, channels[idx + 1])))],
              ch |-> channels[idx + 1]]

GetNextChannel(S, i, s) ==
    LET channels == S.inst[i].chans[s]
        active == ActiveChannels(S, i, s)
        cur == S.inst[i].cursor[s]
        idx == IF cur >= Len(active) THEN 0 ELSE cur
    IN  IF channels = <<>> THEN [S |-> S, ch |-> 0]
        ELSE IF active = <<>> THEN [S |-> S, ch |-> 0]
        ELSE IF cur >= Len(active) /\ ~Cycle(S, i) THEN [S |-> S, ch |-> 0]
        ELSE [S |-> [S EXCEPT !.inst[i].cursor[s] = idx + 1,
                              !.inst[i].handed[s] =
                                  Note(S, @, Window(Append(@, active[idx + 1])))],
              ch |-> active[idx + 1]]

CheckFinished(S, i) ==
    IF Cycle(S, i) THEN FALSE
    ELSE \A s \in S.enabled :
            S.inst[i].chans[s] # <<>> =>
                S.inst[i].cursor[s] >= Len(ActiveChannels(S, i, s))

\* the health guard tripping already when half of the channels fail
CheckParserNeedsRestartAtHalf(S, i, s) ==
    LET channels == S.inst[i].chans[s]
        failing == {k \in 1..Len(channels) : S.db[channels[k]].fc >= FailureThreshold}
    IN  channels # <<>> /\ 2 * Cardinality(failing) >= Len(channels)

\* _check_parser_needs_restart
CheckParserNeedsRestart(S, i, s) ==
    LET channels == S.inst[i].chans[s]
        failing == {k \in 1..Len(channels) : S.db[channels[k]].fc >= FailureThreshold}
    IN  channels # <<>> /\ 2 * Cardinality(failing) > Len(channels)

(***************************************************************************)
(* Persistence and reconciliation                                          *)
(***************************************************************************)
\* the history of a source type starts anew
Forget(S, i, s) == [S.inst[i] EXCEPT !.handed[s] = <<>>]

\* update_channel_result with a success that clears the failures of the channel
UpdateChannelResultForgiving(S, c, success, news_count, avg_score) ==
    IF ~S.db[c].exists THEN S
    ELSE IF success
    THEN [S EXCEPT !.db[c].sc = IF S.env.stats THEN @ + 1 ELSE @, !.db[c].fc = 0]
    ELSE LET fc2 == S.db[c].fc + 1
             off == fc2 >= FailureThreshold /\ S.db[c].active
         IN  [S EXCEPT !.db[c].fc = fc2,
                       !.db[c].active = IF fc2 >= FailureThreshold THEN FALSE ELSE @,
                       !.db[c].deacts = IF fc2 >= FailureThreshold
                                        THEN Note(S, @, IF @ < 2 THEN @ + 1 ELSE @)
                                        ELSE @,
                       !.inst = IF off THEN [i \in InstIds |-> Forget(S, i, SrcOf(c))]
                                ELSE @]

\* DatabaseManager.update_channel_result.  Scores are integers in units of
\* 1 / (5 * ScoreStep), and the scores a poll brings are multiples of ScoreStep, so that
\* the division of line 764 is exact as long as every fold went through lines
\* 762-764.  The success
\* statistics are read by no handler and are kept only in the specifications
\* whose properties speak of them.  deacts counts the times the deactivation
\* branch (lines 767-769: the flag and its warning) was taken for the channel.
UpdateChannelResult(S, c, success, news_count, avg_score) ==
    IF ~S.db[c].exists THEN S
    ELSE IF success
    THEN LET news_collected == S.db[c].items + news_count
             total_score == S.db[c].avg * (news_collected - news_count)
                            + avg_score * news_count
         IN  IF ~S.env.stats THEN S
             ELSE [S EXCEPT !.db[c].sc = @ + 1,
                            !.db[c].items = news_collected,
                            !.db[c].avg = IF news_count > 0 /\ avg_score > 0
                                          THEN total_score \div news_collected
                                          ELSE @]
    ELSE LET fc2 == S.db[c].fc + 1
             off == fc2 >= FailureThreshold /\ S.db[c].active
         IN  [S EXCEPT !.db[c].fc = fc2,
                       !.db[c].active = IF fc2 >= FailureThreshold THEN FALSE ELSE @,
                       !.db[c].deacts = IF fc2 >= FailureThreshold
                                        THEN Note(S, @, IF @ < 2 THEN @ + 1 ELSE @)
                                        ELSE @,
                       !.inst = IF off THEN [i \in InstIds |-> Forget(S, i, SrcOf(c))]
                                ELSE @]

\* sync_channels_from_sheets that deletes the rows the sheets no longer list
SyncChannelsFromSheetsPruning(S, D) ==
    [S EXCEPT !.db = [c \in Chans |->
                         IF S.db[c].exists /\ c \in D THEN [S.db[c] EXCEPT !.active = TRUE]
                         ELSE IF c \in D THEN NewChan
                         ELSE NoChan]]

\* DatabaseManager.sync_channels_from_sheets: D is the set of keys the sheets list
SyncChannelsFromSheets(S, D) ==
    [S EXCEPT !.db = [c \in Chans |->
                         IF S.db[c].exists THEN [S.db[c] EXCEPT !.active = (c \in D)]
                         ELSE IF c \in D THEN NewChan
                         ELSE S.db[c]]]

\* DatabaseManager.get_all_active_channels: only source types with a channel are keys
LoadFromDb(S) ==
    [s \in SourceSet |->
        SelectSeq(ChanOrder, LAMBDA c : SrcOf(c) = s /\ S.db[c].exists /\ S.db[c].active)]

\* SheetsParser.get_all_channels by the way the fetch ends: "raise" (an
\* exception leaves it), "nosheets" (get_available_sheets failed or found no
\* sheet: the empty dict), "novalues" (the sheets are found and reading their
\* rows fails, which GoogleSheetsClient.get_sheet_data turns into no rows: a
\* dict of empty lists), "ok" (the rows of the sheets).  any tells a dict that
\* is not empty.
GetAllChannels(sh) ==
    [raised |-> sh.res = "raise",
     any |-> sh.res \in {"novalues", "ok"},
     keys |-> IF sh.res = "ok" THEN sh.chans ELSE {}]

\* SheetsSyncManager.sync_channels(force=True): the state it leaves; the list it
\* returns is LoadFromDb of that state
SyncChannels(S) ==
    LET got == GetAllChannels(S.sheet)
    IN  IF got.raised THEN S
        ELSE IF ~got.any THEN S
        ELSE SyncChannelsFromSheets(S, got.keys)

(***************************************************************************)
(* Tasks                                                                   *)
(***************************************************************************)
FreeLoops(S) == {l \in LoopIds : S.loop[l].st = "free"}
FreeMgrs(S) == {m \in MgrIds : S.mt[m].st = "free"}
FreeInsts(S) == {i \in InstIds : S.inst[i].kind = "none"}
FreeRuns(S) == {r \in RunIds : S.run[r].st = "free"}

\* a source-loop task that still runs code of _process_source_task
LoopLive(S, l) == S.loop[l].st # "free"

\* The end of a source-loop task: by return, by break, or by cancellation.  A
\* cancelled loop is resumed once more with CancelledError at its suspension
\* point and only logs and breaks (lines 433-435), so cancel() ends it here.  An
\* entry of BaseScheduler.tasks whose task is done is read like an absent one
\* (every reader tests task.done()), so the entry is cleared with the task.
LoopEnd(S, l) ==
    LET i == S.loop[l].inst
        s == S.loop[l].src
    IN  [S EXCEPT !.loop[l] = NoLoop,
                  !.inst[i].tasks[s] = IF @ = l THEN 0 ELSE @]

\* BaseScheduler.stop.  Besides the source loops, tasks holds the reconciliation
\* loop of a continuous engine (syncHeld) and its monitoring loop, which only
\* logs and has no part in the model.
EngineStop(S, i) ==
    LET mine == {S.inst[i].tasks[s] : s \in SourceSet} \ {0}
    IN  [S EXCEPT !.inst[i].running = FALSE,
                  !.inst[i].tasks = [s \in SourceSet |-> 0],
                  !.inst[i].syncHeld = FALSE,
                  !.loop = [l \in LoopIds |-> IF l \in mine THEN NoLoop ELSE S.loop[l]]]

\* BaseScheduler._start_source_task
StartSourceTask(S, i, s) ==
    LET l == Min(FreeLoops(S))
    IN  [S EXCEPT !.loop[l] = [st |-> "new", inst |-> i, src |-> s, chan |-> 0],
                  !.inst[i].tasks[s] = l]

RECURSIVE StartSourceTasks(_, _, _)
StartSourceTasks(S, i, k) ==
    IF k > Len(SourceOrder) THEN S
    ELSE IF SourceOrder[k] \in S.enabled
         THEN StartSourceTasks(StartSourceTask(S, i, SourceOrder[k]), i, k + 1)
         ELSE StartSourceTasks(S, i, k + 1)

\* BaseScheduler.initialize
Initialize(S, i) ==
    LET S1 == SyncChannels(S)
        lists == LoadFromDb(S1)
    IN  [S1 EXCEPT !.inst[i].chans = lists,
                   !.inst[i].cursor = [s \in SourceSet |->
                                          IF lists[s] # <<>> THEN 0 ELSE @[s]],
                   !.inst[i].handed = [s \in SourceSet |-> <<>>],
                   !.inst[i].atStart = Note(S, @, {c \in Chans : SrcOf(c) \in S.enabled
                                                                /\ S1.db[c].active})]

(***************************************************************************)
(* Source Poll Loop: BaseScheduler._process_source_task                    *)
(***************************************************************************)
\* one pass through the body of `while True` up to the next suspension point
LoopIterate(S, l) ==
    LET i == S.loop[l].inst
        s == S.loop[l].src
        r == GetNextChannel(S, i, s)
    IN  IF ~Cycle(S, i) /\ CheckFinished(S, i) THEN LoopEnd(S, l)
        ELSE IF CheckParserNeedsRestart(S, i, s)
             THEN [S EXCEPT !.loop[l].st = "cooldown"]
        ELSE IF r.ch = 0 THEN LoopEnd(r.S, l)
        ELSE [r.S EXCEPT !.loop[l].st = "poll", !.loop[l].chan = r.ch,
                         !.inst[i].visits[r.ch] = Note(S, @, IF @ < 2 THEN @ + 1 ELSE @)]

\* the first step of the task: lines 394-398, then the loop
LoopFirst(S, l) ==
    IF ~S.inst[S.loop[l].inst].running THEN LoopEnd(S, l) ELSE LoopIterate(S, l)

\* an exception other than CancelledError raised in an iteration outside the
\* pipeline call, before the selection has moved the cursor (lines 403-416):
\* `except Exception` logs it and sleeps 60 seconds (lines 436-438)
LoopRaised(S, l) == [S EXCEPT !.loop[l].st = "backoff", !.loop[l].chan = 0]

\* the 60 seconds are over: `break` (line 439), and the task returns
LoopBackoffOver(S, l) == LoopEnd(S, l)

\* the outcome with an except clause that re-raises, so that a failed call
\* reaches `except Exception` of _process_source_task and its break
LoopOutcomeBreaking(S, l, success, news) ==
    IF success
    THEN [UpdateChannelResult(S, S.loop[l].chan, success, news[1], news[2]) EXCEPT
             !.loop[l].st = "throttle", !.loop[l].chan = 0]
    ELSE LoopEnd(UpdateChannelResult(S, S.loop[l].chan, success, news[1], news[2]), l)

\* the outcome without the update of the branch `if not news_items`
LoopOutcomeSilentWhenEmpty(S, l, success, news) ==
    IF success /\ news[1] = 0
    THEN [S EXCEPT !.loop[l].st = "throttle", !.loop[l].chan = 0]
    ELSE [UpdateChannelResult(S, S.loop[l].chan, success, news[1], news[2]) EXCEPT
             !.loop[l].st = "throttle", !.loop[l].chan = 0]

\* _process_single_channel after the pipeline call came back (or raised), then
\* the throttle sleep of _process_source_task
LoopOutcome(S, l, success, news) ==
    [UpdateChannelResult(S, S.loop[l].chan, success, news[1], news[2]) EXCEPT
        !.loop[l].st = "throttle", !.loop[l].chan = 0]

(***************************************************************************)
(* Publication Scheduler: DigestScheduler                                  *)
(***************************************************************************)
\* SchedulerManager._run_scheduler and BaseScheduler.start after the main loop:
\* `finally: await self.stop()`, and the task is done
EngineFinally(S, m) ==
    LET i == S.mt[m].target
    IN  [EngineStop(S, i) EXCEPT !.mt[m].st = "done", !.mt[m].cancel = FALSE]

\* the end of one execution, by any return of execute_digest_with_retry; a run
\* awaited by a single-pass engine (the completion hook) gives control back to
\* BaseScheduler.start, which breaks out of its loop
RunFinish(S, r, how) ==
    LET m == S.run[r].host
        S1 == [S EXCEPT !.run[r] = NoRun,
                        !.last = Note(S, @, [op |-> "digest", res |-> how,
                                             pubs |-> S.run[r].pubs,
                                             marks |-> S.run[r].marks,
                                             fails |-> S.run[r].fails,
                                             attempts |-> S.run[r].attempt + 1,
                                             marked |-> S.run[r].marked])]
    IN  IF m = 0 THEN S1
        ELSE EngineFinally(S1, m)

\* the entry without the is_processing test
ExecuteDigestUnguarded(S, d, type, host) ==
    LET r == Min(FreeRuns(S))
    IN  [S EXCEPT !.dg[d].processing = TRUE,
                  !.run[r] = [NoRun EXCEPT !.st = "build", !.d = d,
                                           !.type = type, !.host = host]]

\* execute_digest_with_retry up to its first suspension point (lines 165-178)
ExecuteDigest(S, d, type, host) ==
    LET r == Min(FreeRuns(S))
    IN  IF S.dg[d].processing
        THEN [S EXCEPT !.last = Note(S, @, [NoLast EXCEPT !.op = "digest",
                                                          !.res = "dropped"])]
        ELSE [S EXCEPT !.dg[d].processing = TRUE,
                       !.run[r] = [NoRun EXCEPT !.st = "build", !.d = d,
                                                !.type = type, !.host = host]]

\* the except branch with the bound on the attempts taken one too far
AttemptFailedOnceMore(S, r) ==
    IF S.run[r].attempt < MaxRetries
    THEN [S EXCEPT !.run[r].st = "retry"]
    ELSE RunFinish([S EXCEPT !.dg[S.run[r].d].processing = FALSE], r, "abandoned")

\* the except branch (lines 202-215)
AttemptFailed(S, r) ==
    IF S.run[r].attempt < MaxRetries - 1
    THEN [S EXCEPT !.run[r].st = "retry"]
    ELSE RunFinish([S EXCEPT !.dg[S.run[r].d].processing = FALSE], r, "abandoned")

\* the ids of digest_data['news_items'] for the answers of create_digest
NewsIds(out) ==
    IF out = "data" THEN {1} ELSE IF out = "data2" THEN {1, 2} ELSE {}

\* the return of create_digest without the test for missing data
BuildReturnedUnchecked(S, r, out) ==
    IF out = "raise" THEN AttemptFailed(S, r)
    ELSE [S EXCEPT !.run[r].st = "publish", !.run[r].pubs = Note(S, @, @ + 1),
                   !.run[r].news = Note(S, @, NewsIds(out))]

\* create_digest came back (lines 178-189): out is "data" or "data2" (two
\* different lists of news_items), "empty" (None, or no news_items) or "raise"
BuildReturned(S, r, out) ==
    IF out = "empty"
    THEN RunFinish([S EXCEPT !.dg[S.run[r].d].processing = FALSE], r, "empty")
    ELSE IF out \in {"data", "data2"}
    THEN [S EXCEPT !.run[r].st = "publish", !.run[r].pubs = Note(S, @, @ + 1),
                   !.run[r].news = Note(S, @, NewsIds(out))]
    ELSE AttemptFailed(S, r)

\* the return of publish_digest with mark_as_used outside `if success`
PublishReturnedMarkingAlways(S, r, out) ==
    LET mark == {[ids |-> S.run[r].news, type |-> S.run[r].type]}
    IN  IF out = "ok"
        THEN RunFinish([S EXCEPT !.dg[S.run[r].d].processing = FALSE,
                                 !.run[r].marks = Note(S, @, @ + 1),
                                 !.run[r].marked = Note(S, @, @ \cup mark)],
                       r, "published")
        ELSE IF out = "false"
        THEN RunFinish([S EXCEPT !.dg[S.run[r].d].processing = FALSE,
                                 !.run[r].marks = Note(S, @, @ + 1),
                                 !.run[r].marked = Note(S, @, @ \cup mark),
                                 !.run[r].fails = Note(S, @, @ + 1)], r, "unpublished")
        ELSE AttemptFailed([S EXCEPT !.run[r].fails = Note(S, @, @ + 1)], r)

\* publish_digest came back (lines 189-200): out is "ok" (True), "false" or "raise"
PublishReturned(S, r, out) ==
    IF out = "ok"
    THEN RunFinish([S EXCEPT !.dg[S.run[r].d].processing = FALSE,
                             !.run[r].marks = Note(S, @, @ + 1),
                             !.run[r].marked =
                                 Note(S, @, @ \cup {[ids |-> S.run[r].news,
                                                     type |-> S.run[r].type]})],
                   r, "published")
    ELSE IF out = "false"
    THEN RunFinish([S EXCEPT !.dg[S.run[r].d].processing = FALSE,
                             !.run[r].fails = Note(S, @, @ + 1)], r, "unpublished")
    ELSE AttemptFailed([S EXCEPT !.run[r].fails = Note(S, @, @ + 1)], r)

\* the retry delay is over: the next pass of `for attempt in range(max_retries)`
RetryWoke(S, r) ==
    [S EXCEPT !.run[r].st = "build", !.run[r].attempt = @ + 1]

\* DigestScheduler.start
DigestStart(S, d) ==
    [S EXCEPT !.dg[d].running = TRUE,
              !.dg[d].orphans = IF S.dg[d].sched = "live" THEN @ + 1 ELSE @,
              !.dg[d].sched = "live"]

\* DigestScheduler.stop: shutdown(wait=False) of the AsyncIOScheduler the
\* instance holds; an execution in flight goes on, and so does a timer that an
\* earlier start() of the instance created and a later one replaced
DigestStop(S, d) ==
    [S EXCEPT !.dg[d].running = FALSE, !.dg[d].sched = "none"]

(***************************************************************************)
(* Scheduling Engine: BaseScheduler.start                                  *)
(***************************************************************************)
\* SinglePassScheduler._on_all_sources_finished up to the first suspension
\* point of the digest execution, or to the end of start() when there is none
HookEnter(S, m) ==
    LET i == S.mt[m].target
        d == S.inst[i].dp
        S1 == [S EXCEPT !.inst[i].hooks = Note(S, @, IF @ < 2 THEN @ + 1 ELSE @)]
        S2 == ExecuteDigest(S1, d, "daily", m)
    IN  IF d = 0 THEN EngineFinally(S1, m)
        ELSE IF S1.dg[d].processing THEN EngineFinally(S2, m)
        ELSE [S2 EXCEPT !.mt[m].st = "hook"]

\* one pass of `while self.is_running` (lines 607-614)
MainLoop(S, m) ==
    LET i == S.mt[m].target
    IN  IF ~S.inst[i].running THEN EngineFinally(S, m)
        ELSE IF ~Cycle(S, i) /\ CheckFinished(S, i) THEN HookEnter(S, m)
        ELSE [S EXCEPT !.mt[m].st = "run"]

\* BaseScheduler.start up to its first suspension point
EngineStart(S, m) ==
    LET i == S.mt[m].target
        S1 == [S EXCEPT !.inst[i].tasks = [s \in SourceSet |-> 0],
                        !.inst[i].syncLost = @ \/ S.inst[i].syncHeld,
                        !.inst[i].syncHeld = FALSE,
                        !.inst[i].cursor = [s \in SourceSet |-> 0],
                        !.inst[i].handed = [s \in SourceSet |-> <<>>],
                        !.inst[i].starts = Note(S, @, IF @ < 2 THEN @ + 1 ELSE @)]
        S2 == [S1 EXCEPT !.inst[i].running = TRUE]
        S3 == StartSourceTasks(Initialize(S2, i), i, 1)
        S4 == [S3 EXCEPT !.inst[i].syncHeld = Cycle(S, i)]
    IN  IF S.inst[i].running THEN [S1 EXCEPT !.mt[m].st = "done"]
        ELSE MainLoop(S4, m)

\* BaseScheduler._sync_loop after its 24 hours of sleep: the reconciliation, or
\* the end of the loop when the engine no longer runs.  held tells the task that
\* BaseScheduler.tasks holds from one that an earlier start() dropped from it.
SyncWoke(S, i, held) ==
    LET S1 == SyncChannels(S)
        lists == LoadFromDb(S1)
    IN  IF S.inst[i].running
        THEN [S1 EXCEPT !.inst[i].chans = lists,
                        !.inst[i].cursor = [s \in SourceSet |->
                                               IF lists[s] # <<>> THEN 0 ELSE @[s]],
                        !.inst[i].handed = [s \in SourceSet |-> <<>>]]
        ELSE IF held THEN [S EXCEPT !.inst[i].syncHeld = FALSE]
        ELSE [S EXCEPT !.inst[i].syncLost = FALSE]

\* BaseScheduler.force_sync
ForceSync(S, i) ==
    LET S1 == SyncChannels(S)
        lists == LoadFromDb(S1)
    IN  [S1 EXCEPT !.inst[i].chans = lists,
                   !.inst[i].cursor = [s \in SourceSet |->
                                          IF lists[s] # <<>> THEN 0 ELSE @[s]],
                   !.inst[i].handed = [s \in SourceSet |-> <<>>]]

\* BaseScheduler.restart_source: the records of the list are the session's own
\* objects, so the counters and flags it sets are those of the table
RestartSource(S, i, s) ==
    LET channels == S.inst[i].chans[s]
        members == {channels[k] : k \in 1..Len(channels)}
        old == S.inst[i].tasks[s]
        S1 == [S EXCEPT !.inst = [j \in InstIds |->
                                     IF j = i THEN [Forget(S, j, s) EXCEPT !.cursor[s] = 0]
                                     ELSE Forget(S, j, s)],
                        !.db = [c \in Chans |->
                                   IF c \in members
                                   THEN [S.db[c] EXCEPT !.fc = 0, !.active = TRUE]
                                   ELSE S.db[c]]]
        S2 == IF old # 0 THEN LoopEnd(S1, old) ELSE S1
    IN  StartSourceTask(S2, i, s)

\* the first step of a task of SchedulerManager._run_scheduler
RunScheduler(S, m) ==
    IF S.mt[m].kind = "digest_publisher"
    THEN [DigestStart(S, S.mt[m].target) EXCEPT !.mt[m].st = "done"]
    ELSE EngineStart(S, m)

\* CancelledError raised in the task at its suspension point: inside the hook it
\* leaves execute_digest_with_retry where it waits (no except clause catches it);
\* then `finally: await self.stop()` of start() and `await scheduler.stop()` of
\* _run_scheduler.  A task cancelled before its first step never runs.
Cancelled(S, m) ==
    LET hosted == {r \in RunIds : S.run[r].st # "free" /\ S.run[r].host = m}
        S1 == [S EXCEPT !.run = [r \in RunIds |-> IF r \in hosted THEN NoRun ELSE S.run[r]],
                        !.last = IF hosted = {} THEN S.last
                                 ELSE Note(S, @, [NoLast EXCEPT !.op = "digest",
                                                               !.res = "cancelled"])]
    IN  IF S.mt[m].st = "new" THEN [S EXCEPT !.mt[m].st = "done", !.mt[m].cancel = FALSE]
        ELSE EngineFinally([S1 EXCEPT !.inst[S.mt[m].target].stopped = Note(S, @, TRUE)], m)

(***************************************************************************)
(* Orchestration Manager: SchedulerManager                                 *)
(***************************************************************************)
NoTask == [held |-> FALSE, task |-> 0]

\* `key in self.tasks and not self.tasks[key].done()`
TaskLive(S, k) == S.mtasks[k].task # 0 /\ S.mt[S.mtasks[k].task].st # "done"

\* get_mutual_exclusion_status()["active_scheduler"]
GetMutualExclusionStatus(S) ==
    IF TaskLive(S, "continuous") THEN "continuous"
    ELSE IF TaskLive(S, "single_pass") THEN "single_pass"
    ELSE IF S.contSched # 0 /\ S.inst[S.contSched].running THEN "continuous"
    ELSE IF S.spSched # 0 /\ S.inst[S.spSched].running THEN "single_pass"
    ELSE "none"

\* _check_mutual_exclusion(scheduler_type, 'start'): is_allowed
CheckMutualExclusion(S, type) ==
    LET current == GetMutualExclusionStatus(S)
    IN  ~(current # "none" /\ current # type)

\* asyncio.create_task(self._run_scheduler(scheduler, name)); self.tasks[key] = task
CreateTask(S, key, target) ==
    LET m == Min(FreeMgrs(S))
    IN  [S EXCEPT !.mt[m] = [st |-> "new", kind |-> key, target |-> target,
                             cancel |-> FALSE],
                  !.mtasks[key] = [held |-> TRUE, task |-> m]]

\* a new ContinuousScheduler / SinglePassScheduler object
NewScheduler(S, kind) ==
    LET i == Min(FreeInsts(S))
    IN  IF kind = "continuous"
        THEN [S EXCEPT !.inst[i] = [NoInst EXCEPT !.kind = kind], !.contSched = i]
        ELSE [S EXCEPT !.inst[i] = [NoInst EXCEPT !.kind = kind, !.dp = S.digSched],
                       !.spSched = i]

\* task.cancel() on a task that is not done
CancelTask(S, m) ==
    IF S.mt[m].st # "done" THEN [S EXCEPT !.mt[m].cancel = TRUE] ELSE S

\* the same with `del self.tasks[key]` inside `if not task.done()`
DropTaskIfLive(S, key) ==
    IF TaskLive(S, key) THEN [CancelTask(S, S.mtasks[key].task) EXCEPT !.mtasks[key] = NoTask]
    ELSE S

\* `if key in self.tasks: cancel it if not done; del self.tasks[key]`
DropTask(S, key) ==
    IF TaskLive(S, key) THEN [CancelTask(S, S.mtasks[key].task) EXCEPT !.mtasks[key] = NoTask]
    ELSE [S EXCEPT !.mtasks[key] = NoTask]

\* what the caller of a start entry point gets: "conflict" is the ValueError
Said(S, op, res) == [S EXCEPT !.last = [NoLast EXCEPT !.op = op, !.res = res]]

StartContinuous(S) ==
    LET S1 == IF S.contSched = 0 THEN NewScheduler(S, "continuous") ELSE S
    IN  IF ~CheckMutualExclusion(S, "continuous")
        THEN Said(S, "start_continuous", "conflict")
        ELSE Said(CreateTask(S1, "continuous", S1.contSched), "start_continuous", "ok")

StopContinuous(S) ==
    LET S1 == DropTask(S, "continuous")
        i == S.contSched
    IN  IF i = 0 THEN S1
        ELSE [EngineStop(S1, i) EXCEPT !.inst[i].stopped = Note(S, @, TRUE)]

StartSinglePass(S) ==
    LET S1 == IF S.spSched = 0 THEN NewScheduler(S, "single_pass") ELSE S
    IN  IF ~CheckMutualExclusion(S, "single_pass")
        THEN Said(S, "start_single_pass", "conflict")
        ELSE Said(CreateTask(S1, "single_pass", S1.spSched), "start_single_pass", "ok")

StopSinglePass(S) ==
    LET i == S.spSched
        S1 == IF i = 0 THEN S
              ELSE [EngineStop(S, i) EXCEPT !.inst[i].stopped = Note(S, @, TRUE)]
    IN  [DropTask(S1, "single_pass") EXCEPT !.spSched = 0]

StartAll(S) ==
    LET S1 == IF S.digSched # 0 THEN CreateTask(S, "digest_publisher", S.digSched) ELSE S
        S2 == IF S1.contSched # 0 THEN CreateTask(S1, "continuous", S1.contSched) ELSE S1
        S3 == IF S2.spSched # 0 THEN CreateTask(S2, "single_pass", S2.spSched) ELSE S2
    IN  S3

\* the DigestScheduler objects nothing refers to
FreeDigs(S) ==
    {d \in DigIds : /\ d # S.digSched /\ S.dg[d] = NoDig
                    /\ \A i \in InstIds : S.inst[i].dp # d
                    /\ \A r \in RunIds : S.run[r].st = "free" \/ S.run[r].d # d
                    /\ \A m \in MgrIds : S.mt[m].st \in {"free", "done"}
                                           \/ S.mt[m].kind # "digest_publisher"
                                           \/ S.mt[m].target # d}

\* restart_digest_scheduler with `self.tasks.clear()` in the place of
\* `del self.tasks['digest_publisher']`
RestartDigestSchedulerClearing(S) ==
    LET S1 == [DropTask(S, "digest_publisher") EXCEPT !.mtasks = [k \in Keys |-> NoTask]]
        S2 == IF S.digSched # 0 THEN DigestStop(S1, S.digSched) ELSE S1
        d == Min(FreeDigs(S2))
    IN  CreateTask([S2 EXCEPT !.digSched = d], "digest_publisher", d)

\* restart_digest_scheduler
RestartDigestScheduler(S) ==
    LET S1 == DropTask(S, "digest_publisher")
        S2 == IF S.digSched # 0 THEN DigestStop(S1, S.digSched) ELSE S1
        d == Min(FreeDigs(S2))
    IN  CreateTask([S2 EXCEPT !.digSched = d], "digest_publisher", d)

\* start_digest_publisher: the manager of the model always has a DigestScheduler
StartDigestPublisher(S) == CreateTask(S, "digest_publisher", S.digSched)

\* stop_digest_publisher
StopDigestPublisher(S) ==
    LET S1 == DropTask(S, "digest_publisher")
    IN  IF S.digSched # 0 THEN DigestStop(S1, S.digSched) ELSE S1

\* stop_all from its start, or from the pause after a cancel, to its next pause
\* (line 218) or its end (line 230).  The tasks of the snapshot that are done are
\* passed over; t is the next one that is not.
StopAllStep(S, rem, t) ==
    IF rem = {}
    THEN [S EXCEPT !.mtasks = [k \in Keys |-> NoTask],
                   !.stopAll = [on |-> FALSE, rem |-> {}]]
    ELSE [CancelTask(S, t) EXCEPT !.stopAll = [on |-> TRUE, rem |-> rem \ {t}]]

(***************************************************************************)
(* Objects no reference reaches are dropped, so that the pools of the      *)
(* model are reused: a finished task (the table entry that holds it keeps   *)
(* the key and reads as done), a scheduler instance that neither the       *)
(* manager nor a live task holds.                                          *)
(***************************************************************************)
Collect(S) ==
    LET mt2 == [m \in MgrIds |-> IF S.mt[m].st = "done" THEN NoMgr ELSE S.mt[m]]
        heldI == {S.contSched, S.spSched}
                 \cup {mt2[m].target : m \in {x \in MgrIds : mt2[x].st \notin {"free", "done"}
                                                     /\ mt2[x].kind # "digest_publisher"}}
                 \cup {S.loop[l].inst : l \in {x \in LoopIds : S.loop[x].st # "free"}}
                 \cup {i \in InstIds : S.inst[i].syncLost}
        heldD == {S.digSched}
                 \cup {S.inst[i].dp : i \in heldI \cap InstIds}
                 \cup {S.run[r].d : r \in {x \in RunIds : S.run[x].st # "free"}}
                 \cup {mt2[m].target : m \in {x \in MgrIds : mt2[x].st \notin {"free", "done"}
                                                     /\ mt2[x].kind = "digest_publisher"}}
                 \cup {d \in DigIds : S.dg[d].sched = "live" \/ S.dg[d].orphans > 0}
    IN  [S EXCEPT !.mt = mt2,
                  !.dg = [d \in DigIds |-> IF d \in heldD THEN S.dg[d] ELSE NoDig],
                  !.mtasks = [k \in Keys |->
                                 IF @[k].task # 0 /\ S.mt[@[k].task].st = "done"
                                 THEN [@[k] EXCEPT !.task = 0] ELSE @[k]],
                  !.inst = [i \in InstIds |-> IF i \in heldI THEN S.inst[i] ELSE NoInst],
                  !.stopAll.rem = {m \in S.stopAll.rem : mt2[m].st \notin {"free", "done"}}]

Commit(S0) ==
    \E T \in {S0} : \E S \in {Collect(T)} :
        /\ db' = S.db /\ sheet' = S.sheet /\ enabled' = S.enabled /\ inst' = S.inst
        /\ contSched' = S.contSched /\ spSched' = S.spSched /\ digSched' = S.digSched
        /\ mtasks' = S.mtasks /\ mt' = S.mt /\ loop' = S.loop /\ dg' = S.dg
        /\ run' = S.run /\ stopAll' = S.stopAll /\ env' = S.env /\ budget' = S.budget /\ last' = S.last

(***************************************************************************)
(* Actions                                                                 *)
(***************************************************************************)
\* an event injected by the environment takes one unit of the budget
Request(S) == [S EXCEPT !.budget = @ - 1]

\* the pools have room for the task, and the instance, a start may create
Room(sched) == FreeMgrs(St) # {} /\ (sched = 0 => FreeInsts(St) # {})

\* requests to the manager (web routes, startup, shutdown)
ReqStartContinuous ==
    /\ budget > 0 /\ Room(contSched)
    /\ Commit(StartContinuous(Request(St)))

ReqStopContinuous ==
    /\ budget > 0
    /\ Commit(StopContinuous(Request(St)))

ReqStartSinglePass ==
    /\ budget > 0 /\ Room(spSched)
    /\ Commit(StartSinglePass(Request(St)))

ReqStopSinglePass ==
    /\ budget > 0
    /\ Commit(StopSinglePass(Request(St)))

ReqStartAll ==
    /\ budget > 0 /\ Cardinality(FreeMgrs(St)) >= 3
    /\ Commit(StartAll(Request(St)))

ReqStopAll ==
    /\ budget > 0 /\ ~stopAll.on
    /\ LET rem == {mtasks[k].task : k \in Keys} \ {0}
       IN  IF rem = {} THEN Commit(StopAllStep(Request(St), rem, 0))
           ELSE \E t \in rem : Commit(StopAllStep(Request(St), rem, t))

StopAllWake ==
    /\ stopAll.on
    /\ IF stopAll.rem = {} THEN Commit(StopAllStep(St, {}, 0))
       ELSE \E t \in stopAll.rem : Commit(StopAllStep(St, stopAll.rem, t))

\* steps of the manager's tasks
MgrTaskStart(m) ==
    /\ mt[m].st = "new" /\ ~mt[m].cancel
    /\ Cardinality(FreeLoops(St)) >= Cardinality(enabled)
    /\ FreeRuns(St) # {}
    /\ mt[m].kind = "digest_publisher" =>
          ~(dg[mt[m].target].sched = "live" /\ dg[mt[m].target].orphans >= MaxOrphans)
    /\ Commit(RunScheduler(St, m))

MgrTick(m) ==
    /\ mt[m].st = "run" /\ ~mt[m].cancel
    /\ FreeRuns(St) # {}
    /\ Commit(MainLoop(St, m))

MgrCancelled(m) ==
    /\ mt[m].st \in {"new", "run", "hook"} /\ mt[m].cancel
    /\ Commit(Cancelled(St, m))

\* steps of the source poll loops
LoopStart(l) ==
    /\ loop[l].st = "new"
    /\ Commit(LoopFirst(St, l))

LoopWake(l) ==
    /\ loop[l].st \in {"throttle", "cooldown"}
    /\ Commit(LoopIterate(St, l))

\* the exhaustion check, the health guard or the selection of the iteration
\* that follows a sleep raises
LoopRaise(l) ==
    /\ budget > 0
    /\ loop[l].st \in {"throttle", "cooldown"}
    /\ Commit(LoopRaised(Request(St), l))

LoopBackoffWake(l) ==
    /\ loop[l].st = "backoff"
    /\ Commit(LoopBackoffOver(St, l))

PollReturn(l) ==
    /\ loop[l].st = "poll"
    /\ \E success \in env.poll :
          \E news \in IF success THEN env.news ELSE {<<0, 0>>} :
              /\ ~success => budget > 0
              /\ success /\ env.stats =>
                     /\ db[loop[l].chan].sc < MaxCount
                     /\ db[loop[l].chan].items + news[1] <= MaxItems
              /\ Commit(LoopOutcome(IF success THEN St ELSE Request(St), l, success, news))

\* the 24 hours of a reconciliation loop are over
SyncWake(i) ==
    /\ budget > 0
    /\ \E held \in BOOLEAN :
          /\ IF held THEN inst[i].syncHeld ELSE inst[i].syncLost
          /\ Commit(SyncWoke(Request(St), i, held))

\* calls of the engine's own operations on an instance the manager has made
ReqForceSync(i) ==
    /\ budget > 0
    /\ inst[i].kind # "none"
    /\ Commit(Said(ForceSync(Request(St), i), "force_sync", "ok"))

ReqRestartSource(i, s) ==
    /\ budget > 0
    /\ inst[i].kind # "none"
    /\ FreeLoops(St) # {} \/ inst[i].tasks[s] # 0
    /\ Commit(Said(RestartSource(Request(St), i, s), "restart_source", s))

\* SchedulerManager.start_sheets_sync (the forced synchronisation of the web
\* interface): the table is reconciled, the lists of the engines are not
ReqSheetsSync ==
    /\ budget > 0
    /\ Commit(Said(SyncChannels(Request(St)), "sheets_sync", "ok"))

\* requests to the manager for its publication scheduler
ReqRestartDigest ==
    /\ budget > 0 /\ FreeMgrs(St) # {} /\ FreeDigs(St) # {}
    /\ Commit(Said(RestartDigestScheduler(Request(St)), "restart_digest_scheduler", "ok"))

ReqStartDigestPublisher ==
    /\ budget > 0 /\ FreeMgrs(St) # {}
    /\ Commit(Said(StartDigestPublisher(Request(St)), "start_digest_publisher", "ok"))

ReqStopDigestPublisher ==
    /\ budget > 0
    /\ Commit(Said(StopDigestPublisher(Request(St)), "stop_digest_publisher", "ok"))

\* requests to a digest scheduler and steps of its executions
CronFire(d, type) ==
    /\ budget > 0
    /\ dg[d].sched = "live" \/ dg[d].orphans > 0
    /\ FreeRuns(St) # {}
    /\ Commit(ExecuteDigest(Request(St), d, type, 0))

ForceExecute(d, type) ==
    /\ budget > 0 /\ d = digSched
    /\ FreeRuns(St) # {}
    /\ Commit(ExecuteDigest(Request(St), d, type, 0))

BuildReturn(r) ==
    /\ run[r].st = "build"
    /\ run[r].host # 0 => ~mt[run[r].host].cancel
    /\ \E out \in env.build : Commit(BuildReturned(St, r, out))

PublishReturn(r) ==
    /\ run[r].st = "publish"
    /\ run[r].host # 0 => ~mt[run[r].host].cancel
    /\ \E out \in env.publish : Commit(PublishReturned(St, r, out))

RetryWake(r) ==
    /\ run[r].st = "retry"
    /\ run[r].host # 0 => ~mt[run[r].host].cancel
    /\ Commit(RetryWoke(St, r))

(***************************************************************************)
(* Initial states: after SchedulerManager.initialize(bypassing_method)     *)
(***************************************************************************)
InitManager(mode) ==
    /\ inst = [i \in InstIds |->
                 IF i = 1 /\ mode = "LOOP" THEN [NoInst EXCEPT !.kind = "continuous"]
                 ELSE IF i = 1 /\ mode = "ONCE"
                      THEN [NoInst EXCEPT !.kind = "single_pass", !.dp = 1]
                 ELSE NoInst]
    /\ contSched = IF mode = "LOOP" THEN 1 ELSE 0
    /\ spSched = IF mode = "ONCE" THEN 1 ELSE 0
    /\ digSched = 1
    /\ mtasks = [k \in Keys |-> NoTask]
    /\ mt = [m \in MgrIds |-> NoMgr]
    /\ loop = [l \in LoopIds |-> NoLoop]
    /\ dg = [d \in DigIds |-> NoDig]
    /\ run = [r \in RunIds |-> NoRun]
    /\ stopAll = [on |-> FALSE, rem |-> {}]
    /\ budget = MaxReq
    /\ last = NoLast

\* the manager with both polling modes, one source type and one healthy channel
Init ==
    /\ \E mode \in {"LOOP", "ONCE", "NONE"} : InitManager(mode)
    /\ db = [c \in Chans |-> Chan(c = 1, 0)]
    /\ sheet = [res |-> "raise", chans |-> {}]
    /\ enabled = {"telegram"}
    /\ env = [poll |-> {TRUE}, build |-> {"empty"}, publish |-> {"ok"}, track |-> FALSE,
              stats |-> FALSE,
              news |-> {<<0, 0>>}]

\* the steps the tasks take by themselves, whatever was requested
TaskSteps ==
    \/ \E m \in MgrIds : MgrTaskStart(m)
    \/ \E m \in MgrIds : MgrTick(m)
    \/ \E m \in MgrIds : MgrCancelled(m)
    \/ \E l \in LoopIds : LoopStart(l)
    \/ \E l \in LoopIds : LoopWake(l)
    \/ \E l \in LoopIds : PollReturn(l)
    \/ \E r \in RunIds : BuildReturn(r)

Next ==
    \/ ReqStartContinuous
    \/ ReqStopContinuous
    \/ ReqStartSinglePass
    \/ ReqStopSinglePass
    \/ ReqStartAll
    \/ ReqStopAll
    \/ StopAllWake
    \/ \E i \in InstIds : SyncWake(i)
    \/ TaskSteps

Spec == Init /\ [][Next]_vars

(***************************************************************************)
(* The publication scheduler under every answer of its collaborators: the  *)
(* application started in single-pass mode, cron triggers, forced          *)
(* executions, the completion hook, and a stop of the single-pass engine.  *)
(***************************************************************************)
InitDigest ==
    /\ InitManager("ONCE")
    /\ db = [c \in Chans |-> Chan(c = 1, 0)]
    /\ sheet = [res |-> "raise", chans |-> {}]
    /\ enabled = {"telegram"}
    /\ env = [poll |-> {TRUE}, build |-> {"data", "data2", "empty", "raise"},
              publish |-> {"ok", "false", "raise"}, track |-> TRUE,
              stats |-> FALSE,
              news |-> {<<0, 0>>}]

NextDigest ==
    \/ ReqStartAll
    \/ ReqStopSinglePass
    \/ \E d \in DigIds, type \in DigestTypes : CronFire(d, type)
    \/ \E d \in DigIds, type \in DigestTypes : ForceExecute(d, type)
    \/ \E r \in RunIds : PublishReturn(r)
    \/ \E r \in RunIds : RetryWake(r)
    \/ TaskSteps

SpecDigest == InitDigest /\ [][NextDigest]_vars

(***************************************************************************)
(* One polling engine over channel lists of every length (one to three      *)
(* channels of the first source type, the first of them one failure from   *)
(* deactivation or not, the second source type with a channel or without): *)
(* the application started in either mode, polls that succeed or fail,     *)
(* reconciliation, a stop of the engine.                                   *)
(***************************************************************************)
InitEngine ==
    /\ \E mode \in {"LOOP", "ONCE"} : InitManager(mode)
    /\ \E n \in 1..3, T \in SUBSET {4}, F \in SUBSET {1} :
          db = [c \in Chans |-> Chan(c \in 1..n \cup T,
                                      IF c \in F THEN FailureThreshold - 1 ELSE 0)]
    /\ sheet = [res |-> "raise", chans |-> {}]
    /\ enabled = SourceSet
    /\ env = [poll |-> {TRUE, FALSE}, build |-> {"empty"}, publish |-> {"ok"},
              track |-> TRUE, stats |-> FALSE,
              news |-> {<<0, 0>>}]

NextEngine ==
    \/ ReqStartAll
    \/ ReqStopContinuous
    \/ ReqStopSinglePass
    \/ \E i \in InstIds : SyncWake(i)
    \/ TaskSteps

SpecEngine == InitEngine /\ [][NextEngine]_vars

(***************************************************************************)
(* The channel directory against the external list: one engine in either   *)
(* mode over records that exist or not, are active or were deactivated by  *)
(* their failures, the fetch of the list ending in each of its ways;       *)
(* polls, reconciliations by the loop and on request, restarts of a source *)
(* type, starts and stops of the engine.                                   *)
(***************************************************************************)
InitDirectory ==
    /\ \E mode \in {"LOOP", "ONCE"} : InitManager(mode)
    /\ \E one \in {Chan(TRUE, FailureThreshold - 1), Chan(FALSE, FailureThreshold)} :
          db = [c \in Chans |->
                   IF c = 1 THEN one
                   ELSE IF c = 2 THEN [Chan(TRUE, 0) EXCEPT !.sc = 1, !.items = 1, !.avg = 1]
                   ELSE NoChan]
    /\ \E res \in {"nosheets", "novalues", "ok"} :
          sheet = [res |-> res, chans |-> IF res = "ok" THEN {1, 2, 4} ELSE {}]
    /\ enabled = SourceSet
    /\ env = [poll |-> {TRUE, FALSE}, build |-> {"empty"}, publish |-> {"ok"},
              track |-> TRUE, stats |-> TRUE,
              news |-> {<<0, 0>>}]

NextDirectory ==
    \/ ReqStartAll
    \/ ReqStopContinuous
    \/ ReqStopSinglePass
    \/ \E i \in InstIds : SyncWake(i)
    \/ \E i \in InstIds : ReqForceSync(i)
    \/ \E i \in InstIds, s \in SourceSet : ReqRestartSource(i, s)
    \/ TaskSteps

SpecDirectory == InitDirectory /\ [][NextDirectory]_vars

(***************************************************************************)
(* One single pass left to itself: the single-pass engine is started once  *)
(* and no request follows.  The channel of the first source type is        *)
(* healthy, one failure from deactivation, or was deactivated by its       *)
(* failures; a second channel exists or not; the external list is fetched  *)
(* or not.  The event loop runs every task that is ready (asyncio runs its *)
(* ready queue in order), which is weak fairness of the steps of each task.*)
(***************************************************************************)
InitPass ==
    /\ InitManager("ONCE")
    /\ \E one \in {Chan(TRUE, 0), Chan(TRUE, FailureThreshold - 1),
                    Chan(FALSE, FailureThreshold)},
          two \in {NoChan, Chan(TRUE, 0), Chan(FALSE, 0)} :
          db = [c \in Chans |-> IF c = 1 THEN one ELSE IF c = 2 THEN two ELSE NoChan]
    /\ \E res \in {"raise", "ok"}, D \in {{}, {1}, {1, 2}} :
          sheet = [res |-> res, chans |-> IF res = "ok" THEN D ELSE {}]
    /\ enabled = SourceSet
    /\ env = [poll |-> {TRUE, FALSE}, build |-> {"empty"}, publish |-> {"ok"},
              track |-> TRUE, stats |-> FALSE,
              news |-> {<<0, 0>>}]

\* the one start of the pass
PassStart ==
    /\ last.op = "none"
    /\ ReqStartSinglePass

NextPass ==
    \/ PassStart
    \/ \E m \in MgrIds : MgrTaskStart(m)
    \/ \E m \in MgrIds : MgrTick(m)
    \/ \E l \in LoopIds : LoopStart(l)
    \/ \E l \in LoopIds : LoopWake(l)
    \/ \E l \in LoopIds : PollReturn(l)
    \/ \E r \in RunIds : BuildReturn(r)

\* a task that is ready to run takes its next step, and the calls of the
\* pipeline and of the digest builder come back
FairPass ==
    /\ \A m \in MgrIds : WF_vars(MgrTaskStart(m) \/ MgrTick(m))
    /\ \A l \in LoopIds : WF_vars(LoopStart(l) \/ LoopWake(l) \/ PollReturn(l))
    /\ \A r \in RunIds : WF_vars(BuildReturn(r))

SpecPass == InitPass /\ [][NextPass]_vars /\ FairPass

(***************************************************************************)
(* Reconciliation by itself: records that do not exist, are active with    *)
(* statistics, or were deactivated by their failures; the fetch of the     *)
(* external list ending in each of its ways, with every list over three    *)
(* keys; reconciliations requested of the manager and of its engine.       *)
(***************************************************************************)
InitReconcile ==
    /\ InitManager("LOOP")
    /\ \E one \in {NoChan, Chan(TRUE, FailureThreshold - 1), Chan(FALSE, FailureThreshold)},
          two \in {NoChan, [Chan(TRUE, 0) EXCEPT !.sc = 1, !.items = 1, !.avg = 1]},
          four \in {NoChan, Chan(TRUE, 0), Chan(FALSE, 0)} :
          db = [c \in Chans |-> IF c = 1 THEN one ELSE IF c = 2 THEN two
                                ELSE IF c = 4 THEN four ELSE NoChan]
    /\ \E res \in {"raise", "nosheets", "novalues", "ok"}, D \in SUBSET {1, 2, 4} :
          sheet = [res |-> res, chans |-> IF res = "ok" THEN D ELSE {}]
    /\ enabled = SourceSet
    /\ env = [poll |-> {TRUE, FALSE}, build |-> {"empty"}, publish |-> {"ok"},
              track |-> TRUE, stats |-> TRUE,
              news |-> {<<0, 0>>}]

NextReconcile ==
    \/ ReqSheetsSync
    \/ \E i \in InstIds : ReqForceSync(i)

SpecReconcile == InitReconcile /\ [][NextReconcile]_vars

(***************************************************************************)
(* The life of one continuous engine: start requests, one after another or *)
(* repeated, restarts of a source type, stops, polls that succeed or fail, *)
(* over two channels of the first source type, the first of them healthy   *)
(* or one failure from deactivation.                                       *)
(***************************************************************************)
InitRestart ==
    /\ InitManager("LOOP")
    /\ \E fc \in {0, FailureThreshold - 1} :
          db = [c \in Chans |-> IF c = 1 THEN Chan(TRUE, fc)
                                ELSE IF c = 2 THEN Chan(TRUE, 0)
                                ELSE NoChan]
    /\ sheet = [res |-> "raise", chans |-> {}]
    /\ enabled = SourceSet
    /\ env = [poll |-> {TRUE, FALSE}, build |-> {"empty"}, publish |-> {"ok"},
              track |-> TRUE, stats |-> FALSE,
              news |-> {<<0, 0>>}]

NextRestart ==
    \/ ReqStartContinuous
    \/ ReqStopContinuous
    \/ \E i \in InstIds, s \in SourceSet : ReqRestartSource(i, s)
    \/ \E m \in MgrIds : MgrTaskStart(m)
    \/ \E m \in MgrIds : MgrTick(m)
    \/ \E m \in MgrIds : MgrCancelled(m)
    \/ \E l \in LoopIds : LoopStart(l)
    \/ \E l \in LoopIds : LoopWake(l)
    \/ \E l \in LoopIds : PollReturn(l)

SpecRestart == InitRestart /\ [][NextRestart]_vars

(***************************************************************************)
(* Properties                                                              *)
(***************************************************************************)
\* a source poll loop that is past the running check of its first step
LoopPolling(l) == loop[l].st \in {"poll", "throttle", "cooldown"}

\* an engine of the kind runs: its is_running flag is true, or one of its source
\* poll loops is live and able to invoke the pipeline
EngineRuns(kind) ==
    \E i \in InstIds :
        /\ inst[i].kind = kind
        /\ inst[i].running \/ \E l \in LoopIds : LoopPolling(l) /\ loop[l].inst = i

\* the manager holds a live task of the kind, or its engine has is_running set
LiveInManager(key, sched) == TaskLive(St, key) \/ (sched # 0 /\ inst[sched].running)

\* C1: in no reachable state are the continuous engine and the single-pass
\* engine both running, where running means that the is_running flag is true or
\* that a source poll loop of the engine is live and able to invoke the pipeline.
C1_MutualExclusion == ~(EngineRuns("continuous") /\ EngineRuns("single_pass"))

\* C2: start_continuous called while single_pass has a live task or its
\* is_running flag set raises the conflict and changes nothing else (no
\* 'continuous' entry, no new engine instance, single-pass engine and task as
\* they were); symmetrically for start_single_pass while continuous is live.
C2_ConflictMutatesNothing ==
    /\ (Room(contSched) /\ LiveInManager("single_pass", spSched)) =>
           StartContinuous(St) = Said(St, "start_continuous", "conflict")
    /\ (Room(spSched) /\ LiveInManager("continuous", contSched)) =>
           StartSinglePass(St) = Said(St, "start_single_pass", "conflict")

\* the executions of execute_digest_with_retry in progress on instance d
InProgress(d) == {r \in RunIds : run[r].st # "free" /\ run[r].d = d}

\* the callers of execute_digest_with_retry: a cron trigger or a forced
\* execution (0), the completion hook run by a manager task
Callers == {0} \cup MgrIds

\* C3: while an execution is in progress on a publication scheduler instance,
\* a further request of any job type from any entry point returns without
\* calling build, publish or mark_as_used and leaves nothing behind to run
\* later; so at most one execution, hence one publish attempt, is in progress.
C3_SingleFlight ==
    \A d \in DigIds :
        /\ Cardinality(InProgress(d)) <= 1
        /\ InProgress(d) # {} =>
               \A type \in DigestTypes, host \in Callers :
                   [ExecuteDigest(St, d, type, host) EXCEPT !.last = last] = St

C3_Witness ==
    /\ last.op = "digest" /\ last.res = "dropped"
    /\ \E r \in RunIds : run[r].st = "publish" /\ run[r].pubs = 1

\* C4: is_processing is set before the first suspension point of an execution
\* and cleared on every way the execution can end, cancellation of the calling
\* task included: the flag is true exactly while an execution is in progress.
C4_FlagFollowsExecution ==
    \A d \in DigIds : dg[d].processing <=> InProgress(d) # {}

\* the results with which an execution that reached the publish step ends
Ended == last.op = "digest" /\ last.res \in {"published", "unpublished", "abandoned"}

\* C5: an execution whose publish step fails k < max_retries times and then
\* succeeds makes k + 1 publish attempts and one mark_as_used call, after the
\* success: an ended execution marked once exactly when it published, it made
\* one publish attempt more than it had failures, and after a failed publish
\* (returned false, or raised) it gave up only when the attempts were used up.
C5_RetryUntilPublished ==
    Ended =>
        /\ last.marks = IF last.res = "published" THEN 1 ELSE 0
        /\ last.res = "published" => last.pubs = last.fails + 1
        /\ (last.res # "published" /\ last.fails > 0) => last.attempts = MaxRetries

\* C6: when the build step returns an empty result the execution ends there:
\* publish is not called, mark_as_used is not called, no retry is made, and the
\* single-flight flag is cleared.
C6_EmptyDigest ==
    /\ \A r \in RunIds :
           run[r].st = "build" =>
               LET T == BuildReturned(St, r, "empty")
               IN  /\ T.run[r] = NoRun
                   /\ ~T.dg[run[r].d].processing
                   /\ T.last.res = "empty"
                   /\ T.last.pubs = run[r].pubs /\ T.last.marks = 0
    /\ (last.op = "digest" /\ last.res = "empty") => last.marks = 0

C6_Witness ==
    /\ last.op = "digest" /\ last.res = "empty" /\ last.pubs = 0
    /\ \A d \in DigIds : ~dg[d].processing

\* C7: one execution makes at most max_retries attempts; when all of them fail
\* it ends abandoned, by a plain return (every execution ends with one of the
\* results below, none of which is an exception), and nothing is marked.
C7_BoundedAttempts ==
    /\ \A r \in RunIds : run[r].attempt < MaxRetries
    /\ last.res \in {"none", "dropped", "cancelled", "empty", "published",
                     "unpublished", "abandoned"}
    /\ (last.op = "digest" /\ last.res = "abandoned") =>
           last.attempts = MaxRetries /\ last.marks = 0

C7_Witness ==
    /\ last.op = "digest" /\ last.res = "abandoned"
    /\ last.attempts = MaxRetries /\ last.fails > 0

\* C8: in single-pass mode, when the completion hook runs no pipeline call of a
\* source loop of the engine is outstanding: every loop has folded the outcome
\* of its last channel, and the engine cancels no poll in flight.
C8_HookAfterPolls ==
    \A m \in MgrIds :
        mt[m].st = "hook" =>
            \A l \in LoopIds : loop[l].inst = mt[m].target => loop[l].st # "poll"

\* C9: in a single-pass run started once and not stopped externally, whatever
\* the poll outcomes, no channel is handed to the pipeline more than once, and
\* when the pass has ended (the hook was entered) every channel that was active
\* at the start and is still active has been handed to the pipeline once.
C9_EachActiveOnce ==
    \A i \in InstIds :
        (inst[i].kind = "single_pass" /\ inst[i].starts = 1 /\ ~inst[i].stopped) =>
            /\ \A c \in Chans : inst[i].visits[c] <= 1
            /\ inst[i].hooks >= 1 =>
                   \A c \in inst[i].atStart : db[c].active => inst[i].visits[c] = 1

\* the position of channel c in the list act
Pos(act, c) == CHOOSE j \in 1..Len(act) : act[j] = c

\* C10: with wrap (continuous mode), the calls of _get_next_channel made for a
\* source type while its n active channels and its cursor are touched by
\* nothing else return the channels in list order cyclically: each returned
\* channel is the successor of the one before, and every window of n
\* consecutive calls holds each active channel once.
C10_CyclicOrder ==
    \A i \in InstIds, s \in SourceSet :
        inst[i].kind = "continuous" =>
            LET act == ActiveChannels(St, i, s)
                n == Len(act)
                h == inst[i].handed[s]
            IN  /\ \A k \in 1..Len(h) : \E j \in 1..n : act[j] = h[k]
                /\ \A k \in 1..(Len(h) - 1) : h[k + 1] = act[(Pos(act, h[k]) % n) + 1]
                /\ \A k \in 1..Len(h) :
                       k + n - 1 <= Len(h) =>
                           /\ {h[j] : j \in k..(k + n - 1)} = {act[j] : j \in 1..n}

C10_Witness ==
    \E i \in InstIds :
        /\ inst[i].kind = "continuous"
        /\ Len(ActiveChannels(St, i, "telegram")) = 3
        /\ inst[i].handed["telegram"] = <<1, 2, 3, 1>>

\* C11: without wrap (single-pass mode), while the cursor is below the number
\* n of active channels of a source type _get_next_channel returns the channel
\* at the cursor and moves the cursor by one, so that the channels returned so
\* far are the channels of the list in order; from n on it returns none and
\* changes nothing; _check_finished is true exactly when every enabled source
\* type present in the directory has its cursor at or past the length of its
\* active list, that is when _get_next_channel returns none for every enabled
\* source type; force_sync puts the cursor of every source type it lists back
\* to 0, and the first channel of the list is returned again.
C11_SinglePassExhausts ==
    \A i \in InstIds :
        inst[i].kind = "single_pass" =>
            /\ \A s \in SourceSet :
                   LET act == ActiveChannels(St, i, s)
                       cur == inst[i].cursor[s]
                       h == inst[i].handed[s]
                       r == GetNextChannel(St, i, s)
                   IN  /\ cur < Len(act) =>
                              /\ r.ch = act[cur + 1]
                              /\ r.S.inst[i].cursor[s] = cur + 1
                       /\ cur >= Len(act) => r.ch = 0 /\ r.S = St
                       /\ Len(h) <= cur
                       /\ cur <= Len(act) =>
                              \A k \in 1..Len(h) : h[k] = act[cur - Len(h) + k]
            /\ CheckFinished(St, i) <=>
                   \A s \in enabled :
                       inst[i].chans[s] # <<>> =>
                           inst[i].cursor[s] >= Len(ActiveChannels(St, i, s))
            /\ CheckFinished(St, i) <=>
                   \A s \in enabled : GetNextChannel(St, i, s).ch = 0
            /\ LET T == ForceSync(St, i)
               IN  \A s \in SourceSet :
                       T.inst[i].chans[s] # <<>> =>
                           /\ T.inst[i].cursor[s] = 0
                           /\ GetNextChannel(T, i, s).ch = T.inst[i].chans[s][1]

\* a single pass has returned both channels of a source type and is exhausted
\* after a forced reconciliation had put its cursor back
C11_Witness ==
    \E i \in InstIds :
        /\ inst[i].kind = "single_pass" /\ inst[i].running
        /\ last.op = "force_sync"
        /\ Len(ActiveChannels(St, i, "telegram")) = 2
        /\ inst[i].cursor["telegram"] = 2
        /\ inst[i].handed["telegram"] = <<1, 2>>

\* the single-pass engine of the manager has been started
PassStarted == spSched # 0 /\ inst[spSched].starts >= 1

\* start() of the single-pass engine has returned after the completion hook
\* fired once, and every source poll loop of the engine has ended
PassTerminated ==
    /\ spSched # 0 /\ ~inst[spSched].running
    /\ inst[spSched].hooks = 1
    /\ \A l \in LoopIds : LoopLive(St, l) => loop[l].inst # spSched
    /\ \A m \in MgrIds :
           mt[m].kind = "single_pass" /\ mt[m].target = spSched =>
               mt[m].st \in {"free", "done"}

\* C12: a single-pass engine that is started and not stopped from outside
\* terminates under fair scheduling, whatever the channels are at the start
\* (failure counts at the threshold, no active channel): every source poll
\* loop ends, the completion hook fires exactly once and start() returns.
C12_PassTerminates == PassStarted ~> PassTerminated

\* C13: start() on an engine instance that is already running is refused and
\* changes no state: the task table of the engine, the cursors, is_running (and
\* start_time, which the code writes only after the test) are as they were,
\* and no task is spawned.
C13_SecondStartChangesNothing ==
    \A m \in MgrIds :
        /\ mt[m].st = "new" /\ mt[m].kind \in {"continuous", "single_pass"}
        /\ inst[mt[m].target].running
        => LET i == mt[m].target
               T == EngineStart(St, m)
           IN  /\ T.inst[i].tasks = inst[i].tasks
               /\ T.inst[i].syncHeld = inst[i].syncHeld
               /\ T.inst[i].cursor = inst[i].cursor
               /\ T.inst[i].running = inst[i].running
               /\ T.loop = loop

\* C14: once stop() has run on an engine that was started, every task the
\* engine spawned since has been cancelled, whatever starts, repeated starts
\* and restarts of a source type came before: no source poll loop of the
\* stopped engine is left that invokes the pipeline.
C14_StopCancelsEveryLoop ==
    \A i \in InstIds :
        inst[i].starts >= 1 /\ ~inst[i].running =>
            \A l \in LoopIds : LoopPolling(l) => loop[l].inst # i

\* C15: a channel with failure_count = 2 that receives one more failed
\* outcome becomes inactive, a failed outcome adds exactly one to
\* failure_count, and the deactivation (the state change and its warning) is
\* triggered once per channel: no later failed outcome triggers it again.
C15_DeactivatedOnce ==
    \A c \in Chans :
        db[c].exists =>
            LET T == UpdateChannelResult(St, c, FALSE, 0, 0)
            IN  /\ T.db[c].fc = db[c].fc + 1
                /\ db[c].fc = FailureThreshold - 1 => ~T.db[c].active
                /\ db[c].deacts <= 1

\* C16: a channel deactivated because its failure_count reached the threshold
\* is not reactivated by poll outcomes, by the reconciliation loop or by a
\* forced reconciliation (restart_source alone reactivates it, and resets the
\* count), so every active channel has failure_count below the threshold.
C16_ActiveBelowThreshold ==
    \A c \in Chans :
        db[c].exists /\ db[c].active => db[c].fc < FailureThreshold

\* C17: for every engine and source type the cursor is between 0 and the
\* number of currently active channels of the list, also after a poll outcome
\* deactivated a channel; the cursor is 0 right after every refresh of the
\* list (initialize, the reconciliation loop, force_sync); and in continuous
\* mode a call that wraps around returns the channel at index 0.
C17_CursorInRange ==
    \A i \in InstIds :
        inst[i].kind # "none" =>
            \A s \in SourceSet :
                LET act == ActiveChannels(St, i, s)
                    cur == inst[i].cursor[s]
                IN  /\ 0 <= cur /\ cur <= Len(act)
                    /\ Initialize(St, i).inst[i].cursor[s] = 0
                    /\ ForceSync(St, i).inst[i].cursor[s] = 0
                    /\ inst[i].running => SyncWoke(St, i, TRUE).inst[i].cursor[s] = 0
                    /\ Cycle(St, i) /\ cur >= Len(act) /\ act # <<>> =>
                           GetNextChannel(St, i, s).ch = act[1]

\* the source poll loops of engine i for source type s that are live in state S
LoopsOf(S, i, s) ==
    {l \in LoopIds : LoopLive(S, l) /\ S.loop[l].inst = i /\ S.loop[l].src = s}

\* restart_source(s) on engine i: the cursor of s is 0, every channel of the
\* list of s has failure_count 0 and is active, the loop the engine held for s
\* is ended and one new loop is spawned for s; cursors, records and loops of
\* the other source types are as they were
RestartSourceFrame(i, s) ==
    LET T == RestartSource(St, i, s)
        channels == inst[i].chans[s]
        old == inst[i].tasks[s]
    IN  /\ T.inst[i].cursor[s] = 0
        /\ \A k \in 1..Len(channels) :
               T.db[channels[k]].fc = 0 /\ T.db[channels[k]].active
        /\ T.inst[i].tasks[s] \in LoopsOf(T, i, s)
        /\ T.loop[T.inst[i].tasks[s]].st = "new"
        /\ LoopsOf(T, i, s) \ {T.inst[i].tasks[s]} = LoopsOf(St, i, s) \ {old}
        /\ \A l \in LoopsOf(St, i, s) \ {old} : T.loop[l] = loop[l]
        /\ \A s2 \in SourceSet \ {s} :
               /\ T.inst[i].cursor[s2] = inst[i].cursor[s2]
               /\ T.inst[i].tasks[s2] = inst[i].tasks[s2]
               /\ T.inst[i].chans[s2] = inst[i].chans[s2]
               /\ \A j \in InstIds : \A l \in LoopsOf(St, j, s2) : T.loop[l] = loop[l]
        /\ \A c \in Chans : SrcOf(c) # s => T.db[c] = db[c]

\* C18: restart_source(s) sets the cursor of s to 0, sets failure_count to 0
\* and is_active to true on every channel of s, cancels the current loop of s
\* and spawns exactly one new loop for s, and leaves the cursors, the channel
\* records and the loops of every other source type unchanged; at no time do
\* two loops of one engine for the same source type both invoke the pipeline.
C18_RestartSourceOneLoop ==
    \A i \in InstIds :
        inst[i].kind # "none" =>
            \A s \in SourceSet :
                /\ FreeLoops(St) # {} \/ inst[i].tasks[s] # 0 => RestartSourceFrame(i, s)
                /\ Cardinality({l \in LoopsOf(St, i, s) : LoopPolling(l)}) <= 1

\* the statistics of a channel record
Counters(rec) == <<rec.sc, rec.fc, rec.items, rec.avg>>

\* C19: reconciliation against an external directory D deletes no record:
\* every record that existed still exists; the records whose key is in D are
\* active afterwards and keep success_count, failure_count, news_collected and
\* avg_interest_score; the records whose key is not in D are inactive
\* afterwards; the keys of D that had no record get one, active, with all
\* counters 0; and applying the same D twice gives what applying it once gives.
C19_ReconcileKeepsRecords ==
    \A D \in SUBSET Chans :
        LET T == SyncChannelsFromSheets(St, D)
        IN  /\ T = [St EXCEPT !.db = T.db]
            /\ SyncChannelsFromSheets(T, D) = T
            /\ \A c \in Chans :
                   /\ db[c].exists => T.db[c].exists
                   /\ db[c].exists /\ c \in D =>
                          T.db[c].active /\ Counters(T.db[c]) = Counters(db[c])
                   /\ db[c].exists /\ c \notin D => ~T.db[c].active
                   /\ ~db[c].exists /\ c \in D =>
                          /\ T.db[c].exists /\ T.db[c].active
                          /\ Counters(T.db[c]) = <<0, 0, 0, 0>>
                   /\ ~db[c].exists /\ c \notin D => ~T.db[c].exists

\* a reconciliation has created the record of channel 4, reactivated channel 1
\* with its failure count and deactivated channel 2, which the sheets do not
\* list, with its statistics
C19_Witness ==
    /\ last.op \in {"sheets_sync", "force_sync"}
    /\ sheet = [res |-> "ok", chans |-> {1, 4}]
    /\ db[4] = NewChan
    /\ db[1].active /\ db[1].fc = FailureThreshold
    /\ db[2].exists /\ ~db[2].active /\ Counters(db[2]) = <<1, 0, 1, 1>>

\* C20: when the fetch of the external channel list fails (it raises, or it
\* comes back without any channel), sync_channels changes no channel record
\* (none created, activated or deactivated), raises nothing, and returns the
\* persisted active channels by source type as they were before the call.
C20_FetchFailureChangesNothing ==
    sheet.res # "ok" =>
        LET T == SyncChannels(St)
        IN  /\ T = St
            /\ LoadFromDb(T) = LoadFromDb(St)

\* C21: at the step in which stop_all ends (the task table cleared, after the
\* pause that follows its last cancel) with every cancellation delivered, the
\* task table is empty, no engine instance has its is_running flag set or a
\* live source poll loop, and no publication scheduler has a cron timer, of its
\* current start or of an earlier one, that can still fire.
C21_StopAllStopsEverything ==
    [][(stopAll.on /\ ~stopAll'.on /\ \A m \in MgrIds : ~mt'[m].cancel) =>
           /\ \A k \in Keys : mtasks'[k] = NoTask
           /\ \A i \in InstIds : ~inst'[i].running
           /\ \A l \in LoopIds : loop'[l].st = "free"
           /\ \A d \in DigIds : dg'[d].sched # "live" /\ dg'[d].orphans = 0]_vars

(***************************************************************************)
(* The manager's operations on its publication scheduler: the application  *)
(* started in either polling mode, the publisher restarted, stopped and    *)
(* started again while cron triggers and forced executions are in flight.  *)
(***************************************************************************)
InitPublisher ==
    /\ \E mode \in {"LOOP", "ONCE"} : InitManager(mode)
    /\ db = [c \in Chans |-> Chan(c = 1, 0)]
    /\ sheet = [res |-> "raise", chans |-> {}]
    /\ enabled = {"telegram"}
    /\ env = [poll |-> {TRUE}, build |-> {"data"}, publish |-> {"ok"},
              track |-> FALSE, stats |-> FALSE,
              news |-> {<<0, 0>>}]

NextPublisher ==
    \/ ReqStartAll
    \/ ReqRestartDigest
    \/ ReqStartDigestPublisher
    \/ ReqStopDigestPublisher
    \/ \E d \in DigIds, type \in DigestTypes : CronFire(d, type)
    \/ \E d \in DigIds, type \in DigestTypes : ForceExecute(d, type)
    \/ \E r \in RunIds : PublishReturn(r)
    \/ TaskSteps

SpecPublisher == InitPublisher /\ [][NextPublisher]_vars

\* the executions of a digest between the build and the publication with its
\* mark_as_used, on any DigestScheduler
Executing == {r \in RunIds : run[r].st \in {"build", "publish"}}

\* C22: whatever stop_digest_publisher, restart_digest_scheduler and the starts
\* of a publication scheduler were issued while an execution was in flight, at
\* no time are two digest executions between build and publication at once.
C22_NoOverlapAfterRestart == Cardinality(Executing) <= 1

\* C23: restart_digest_scheduler stops the publication scheduler the manager
\* holds (is_running false, its cron timer shut down, its live task cancelled)
\* and discards it, creates a new one and a new task for it under the key
\* 'digest_publisher', and leaves the 'continuous' and 'single_pass' entries of
\* the task table, their tasks, both engine instances with their is_running
\* flags and cursors, the source poll loops and the channel records unchanged.
C23_RestartDigestFrame ==
    (FreeMgrs(St) # {} /\ FreeDigs(St) # {}) =>
        LET T == RestartDigestScheduler(St)
            old == mtasks["digest_publisher"].task
            new == T.mtasks["digest_publisher"]
        IN  /\ ~T.dg[digSched].running /\ T.dg[digSched].sched # "live"
            /\ old # 0 => T.mt[old].cancel \/ T.mt[old].st = "done"
            /\ T.digSched # digSched /\ T.dg[T.digSched] = NoDig
            /\ new.held /\ new.task \notin {0, old}
            /\ T.mt[new.task] = [st |-> "new", kind |-> "digest_publisher",
                                 target |-> T.digSched, cancel |-> FALSE]
            /\ \A k \in {"continuous", "single_pass"} : T.mtasks[k] = mtasks[k]
            /\ \A m \in MgrIds : (mt[m].st # "free" /\ mt[m].kind # "digest_publisher")
                                     => T.mt[m] = mt[m]
            /\ T.contSched = contSched /\ T.spSched = spSched
            /\ T.inst = inst /\ Collect(T).inst = inst
            /\ T.loop = loop /\ T.db = db

\* the publisher has been restarted while the engine that start_all started
\* runs with a source poll loop in a pipeline call and its task live
C23_Witness ==
    /\ last.op = "restart_digest_scheduler" /\ digSched = 2
    /\ mtasks["digest_publisher"].task # 0
    /\ \E k \in {"continuous", "single_pass"} : TaskLive(St, k)
    /\ \E i \in InstIds :
           inst[i].running /\ \E l \in LoopIds : loop[l].inst = i /\ loop[l].st = "poll"

(***************************************************************************)
(* The statistics of the channel records: the continuous engine over two   *)
(* channels, with polls that bring no item, items without a score, and     *)
(* items at the scores 0.4 and 0.8.                                        *)
(***************************************************************************)
NewsCounts == {0, 1, 5}
Scores == {0, 2 * ScoreStep, 4 * ScoreStep}

InitStats ==
    /\ InitManager("LOOP")
    /\ db = [c \in Chans |-> IF c <= 2 THEN NewChan ELSE NoChan]
    /\ sheet = [res |-> "raise", chans |-> {}]
    /\ enabled = {"telegram"}
    /\ env = [poll |-> {TRUE, FALSE}, build |-> {"empty"}, publish |-> {"ok"},
              track |-> FALSE, stats |-> TRUE,
              news |-> {<<0, 0>>} \cup ((NewsCounts \ {0}) \X Scores)]

NextStats ==
    \/ ReqStartContinuous
    \/ \E m \in MgrIds : MgrTaskStart(m)
    \/ \E m \in MgrIds : MgrTick(m)
    \/ \E l \in LoopIds : LoopStart(l)
    \/ \E l \in LoopIds : LoopWake(l)
    \/ \E l \in LoopIds : PollReturn(l)

SpecStats == InitStats /\ [][NextStats]_vars

\* C24: a successful outcome with newCount items at the average newAvg leaves
\* news_collected = previous + newCount and an avg_interest_score with
\* avg_new * news_collected_new = avg_prev * news_collected_prev
\* + newAvg * newCount, which is newAvg when nothing had been collected; for
\* every count and every score of the bounds (at most MaxItems items on a
\* channel), the score 0 included.
C24_RunningAverage ==
    \A c \in Chans : \A newCount \in NewsCounts : \A newAvg \in Scores :
        (db[c].exists /\ db[c].items + newCount <= MaxItems) =>
            LET T == UpdateChannelResult(St, c, TRUE, newCount, newAvg)
            IN  /\ T.db[c].items = db[c].items + newCount
                /\ T.db[c].avg * T.db[c].items
                       = db[c].avg * db[c].items + newAvg * newCount
                /\ (db[c].items = 0 /\ newCount > 0) => T.db[c].avg = newAvg

\* C25: when the pipeline call of a visit raises, the outcome is folded as one
\* failure of the visited channel (failure_count + 1, the success statistics
\* and every other record as they were), the loop is not ended: it sleeps the
\* throttle interval with the cursor where the selection left it, no other
\* loop is touched, and its next iteration visits the next channel of its
\* source type whenever the engine cycles, the health guard lets it and an
\* active channel is left.
C25_PipelineErrorRecorded ==
    \A l \in LoopIds :
        loop[l].st = "poll" =>
            LET c == loop[l].chan
                i == loop[l].inst
                s == loop[l].src
                T == LoopOutcome(St, l, FALSE, <<0, 0>>)
                U == LoopIterate(T, l)
            IN  /\ T.db[c].fc = db[c].fc + 1
                /\ <<T.db[c].sc, T.db[c].items, T.db[c].avg>>
                       = <<db[c].sc, db[c].items, db[c].avg>>
                /\ \A c2 \in Chans \ {c} : T.db[c2] = db[c2]
                /\ LoopLive(T, l) /\ T.loop[l].st = "throttle"
                /\ T.loop[l].inst = i /\ T.loop[l].src = s
                /\ \A l2 \in LoopIds \ {l} : T.loop[l2] = loop[l2]
                /\ T.inst[i].cursor = inst[i].cursor
                /\ T.inst[i].tasks = inst[i].tasks
                /\ T.inst[i].running = inst[i].running
                /\ (Cycle(T, i) /\ ~CheckParserNeedsRestart(T, i, s)
                    /\ GetNextChannel(T, i, s).ch # 0) =>
                       /\ U.loop[l].st = "poll"
                       /\ U.loop[l].chan = GetNextChannel(T, i, s).ch
                       /\ SrcOf(U.loop[l].chan) = s

\* a loop is in the pipeline call of a channel after a call of it on another
\* channel of its source type raised and was folded as the first failure of
\* that channel
C25_Witness ==
    \E l \in LoopIds : \E c \in Chans :
        /\ loop[l].st = "poll" /\ loop[l].chan # c /\ SrcOf(c) = loop[l].src
        /\ db[c].fc = 1 /\ inst[loop[l].inst].visits[c] >= 1

(***************************************************************************)
(* The source poll loops of one engine step by step: the application       *)
(* started in either mode over two source types, the first with two        *)
(* channels of which the first may be one failure from deactivation or      *)
(* deactivated, polls that succeed or fail, iterations that raise, and a   *)
(* stop of the engine.                                                     *)
(***************************************************************************)
InitLoops ==
    /\ \E mode \in {"LOOP", "ONCE"} : InitManager(mode)
    /\ \E first \in {Chan(TRUE, 0), Chan(TRUE, FailureThreshold - 1),
                     Chan(FALSE, FailureThreshold)} :
          db = [c \in Chans |-> IF c = 1 THEN first
                                ELSE IF c \in {2, 4} THEN NewChan ELSE NoChan]
    /\ sheet = [res |-> "raise", chans |-> {}]
    /\ enabled = SourceSet
    /\ env = [poll |-> {TRUE, FALSE}, build |-> {"empty"}, publish |-> {"ok"},
              track |-> FALSE, stats |-> FALSE,
              news |-> {<<0, 0>>}]

NextLoops ==
    \/ ReqStartAll
    \/ ReqStopContinuous
    \/ ReqStopSinglePass
    \/ \E l \in LoopIds : LoopRaise(l)
    \/ \E l \in LoopIds : LoopBackoffWake(l)
    \/ TaskSteps

SpecLoops == InitLoops /\ [][NextLoops]_vars

\* C26: when an iteration of a source poll loop raises outside the pipeline
\* call, the loop sleeps its 60 seconds and after them is still running, with
\* the cursor where it was: the error does not end the loop.
C26_LoopSurvivesError ==
    \A l \in LoopIds :
        loop[l].st = "backoff" =>
            LET T == LoopBackoffOver(St, l)
            IN  /\ LoopLive(T, l)
                /\ T.inst[loop[l].inst].cursor = inst[loop[l].inst].cursor

\* the channels of source type s in the list of engine i that have reached the
\* failure threshold
Failing(i, s) ==
    {k \in 1..Len(inst[i].chans[s]) : db[inst[i].chans[s][k]].fc >= FailureThreshold}

\* C27: an iteration of a source poll loop that finds more than half of the
\* channels of its source type at failure_count >= 3 selects no channel: no
\* pipeline call, cursor, records and visit history unchanged; unless the
\* single pass is over, which ends the loop first, it does nothing but sleep
\* one cooldown interval before the next iteration checks again.  With at
\* most half of the channels at the threshold the iteration is not sent to
\* the cooldown.
C27_HealthGuard ==
    \A l \in LoopIds :
        loop[l].st \in {"throttle", "cooldown"} =>
            LET i == loop[l].inst
                s == loop[l].src
                T == LoopIterate(St, l)
                over == ~Cycle(St, i) /\ CheckFinished(St, i)
            IN  /\ 2 * Cardinality(Failing(i, s)) > Len(inst[i].chans[s]) =>
                       /\ T.loop[l].st # "poll" /\ T.loop[l].chan = 0
                       /\ T.inst[i].cursor = inst[i].cursor
                       /\ T.inst[i].visits = inst[i].visits
                       /\ T.db = db
                       /\ ~over => T = [St EXCEPT !.loop[l].st = "cooldown"]
                /\ 2 * Cardinality(Failing(i, s)) <= Len(inst[i].chans[s]) =>
                       T.loop[l].st # "cooldown"

\* a loop sleeps the cooldown interval with more than half of the channels of
\* its list at the failure threshold
C27_Witness ==
    /\ \E l \in LoopIds :
           /\ loop[l].st = "cooldown"
           /\ 2 * Cardinality(Failing(loop[l].inst, loop[l].src))
                  > Len(inst[loop[l].inst].chans[loop[l].src])

\* the pipeline calls outstanding for source type s on engine i
Outstanding(i, s) ==
    {l \in LoopIds : loop[l].inst = i /\ loop[l].src = s /\ loop[l].st = "poll"}

\* C28: for every engine instance and source type at most one pipeline call
\* is outstanding, whatever starts, stops and restart_source calls were made.
C28_OnePipelineCall ==
    \A i \in InstIds : \A s \in SourceSet : Cardinality(Outstanding(i, s)) <= 1

\* the states one step of the source poll loop l can leave: the first step,
\* an iteration (exhaustion check, health guard, selection) or its failure, the
\* folding of an outcome and the throttle, the end of the back-off
LoopSteps(l) ==
    IF loop[l].st = "new" THEN {LoopFirst(St, l)}
    ELSE IF loop[l].st \in {"throttle", "cooldown"}
    THEN {LoopIterate(St, l), LoopRaised(St, l)}
    ELSE IF loop[l].st = "poll"
    THEN {LoopOutcome(St, l, success, <<0, 0>>) : success \in BOOLEAN}
    ELSE IF loop[l].st = "backoff" THEN {LoopBackoffOver(St, l)}
    ELSE {}

\* C29: a step of the poll loop of source type s (first step, exhaustion
\* check, health guard, selection, outcome folding with its throttle, cooldown,
\* termination) leaves, on every engine, the cursor, the channel list and the
\* held loop of every other source type unchanged, leaves the channel records
\* of the other source types unchanged, and leaves every loop of another
\* source type where it was, so that its next step is as possible as before.
C29_OtherSourcesUntouched ==
    \A l \in LoopIds : \A T \in LoopSteps(l) :
        LET s == loop[l].src
        IN  /\ \A j \in InstIds : \A s2 \in SourceSet \ {s} :
                   /\ T.inst[j].cursor[s2] = inst[j].cursor[s2]
                   /\ T.inst[j].chans[s2] = inst[j].chans[s2]
                   /\ T.inst[j].tasks[s2] = inst[j].tasks[s2]
            /\ \A c \in Chans : SrcOf(c) # s => T.db[c] = db[c]
            /\ \A l2 \in LoopIds : loop[l2].src # s => T.loop[l2] = loop[l2]

\* the loops of both source types of an engine are live: one has selected a
\* channel past the first of its list and waits for the pipeline, the other
\* sleeps its throttle interval after a visit
C29_Witness ==
    \E l \in LoopIds : \E l2 \in LoopIds :
        /\ loop[l].inst = loop[l2].inst /\ loop[l].src # loop[l2].src
        /\ loop[l].st = "poll" /\ inst[loop[l].inst].cursor[loop[l].src] = 2
        /\ loop[l2].st = "throttle" /\ inst[loop[l].inst].cursor[loop[l2].src] = 1

\* the single pass of engine i has nothing left for source type s
Exhausted(i, s) ==
    ~Cycle(St, i) /\ (CheckFinished(St, i)
                      \/ inst[i].cursor[s] >= Len(ActiveChannels(St, i, s)))

\* C30: a source poll loop goes from idle (its first step, or the end of a
\* sleep) to the pipeline call, from the pipeline call to the throttle sleep
\* with the outcome folded into the channel record, and from the sleep to idle
\* again: a pipeline call is never followed by another without the throttle
\* sleep between them; and the loop ends by itself only in single-pass mode,
\* by exhaustion (otherwise it is ended from outside: cancelled, or its engine
\* stopped before its first step).
C30_LoopCycle ==
    \A l \in LoopIds : \A T \in LoopSteps(l) :
        LET i == loop[l].inst
            s == loop[l].src
            c == loop[l].chan
        IN  /\ loop[l].st = "poll" =>
                   /\ T.loop[l].st = "throttle"
                   /\ T.db[c].fc + T.db[c].sc >= db[c].fc + db[c].sc
                   /\ T.db[c].fc = db[c].fc \/ T.db[c].fc = db[c].fc + 1
            /\ T.loop[l].st = "poll" =>
                   /\ loop[l].st \in {"new", "throttle", "cooldown"}
                   /\ SrcOf(T.loop[l].chan) = s
            /\ loop[l].st \in {"new", "throttle", "cooldown"} =>
                   T.loop[l].st \in {"poll", "cooldown", "backoff", "free"}
            /\ ~LoopLive(T, l) =>
                   \/ Exhausted(i, s)
                   \/ loop[l].st = "new" /\ ~inst[i].running

\* C31: an execution calls mark_as_used at most once, and only as the step
\* that follows a publish_digest that returned success, with the ids of the
\* news items the build of that attempt returned and with the type of the
\* execution; no call before the publication, none after a publication that
\* returned false or raised.
C31_MarkAfterPublish ==
    /\ \A r \in RunIds : run[r].st # "free" => run[r].marks = 0 /\ run[r].marked = {}
    /\ \A r \in RunIds : \A out \in env.build :
           run[r].st = "build" =>
               LET T == BuildReturned(St, r, out)
               IN  IF T.run[r].st = "free" THEN T.last.marks = 0 /\ T.last.marked = {}
                   ELSE /\ T.run[r].marks = 0 /\ T.run[r].marked = {}
                        /\ T.run[r].st = "publish" => T.run[r].news = NewsIds(out)
    /\ \A r \in RunIds :
           run[r].st = "publish" =>
               /\ LET T == PublishReturned(St, r, "ok")
                  IN  /\ T.last.res = "published" /\ T.last.marks = 1
                      /\ T.last.marked = {[ids |-> run[r].news, type |-> run[r].type]}
               /\ \A out \in {"false", "raise"} :
                      LET T == PublishReturned(St, r, out)
                      IN  IF T.run[r].st = "free"
                          THEN T.last.marks = 0 /\ T.last.marked = {}
                          ELSE T.run[r].marks = 0 /\ T.run[r].marked = {}
    /\ last.op = "digest" =>
           /\ last.marks <= 1 /\ Cardinality(last.marked) = last.marks
           /\ last.marks = 1 <=> last.res = "published"

\* an execution of the weekly digest has ended published at its second
\* attempt, with the two items of that attempt's build marked as used
C31_Witness ==
    /\ last.op = "digest" /\ last.res = "published" /\ last.attempts = 2
    /\ last.marked = {[ids |-> {1, 2}, type |-> "weekly"]}

\* C32 as stated: no step of the core (outcome folding, reconciliation,
\* restart_source, start, stop) decreases success_count or failure_count of a
\* channel.
C32_CountersMonotonic ==
    [][\A c \in Chans : db'[c].sc >= db[c].sc /\ db'[c].fc >= db[c].fc]_vars

\* C32, amended: no step decreases success_count; failure_count is decreased
\* by restart_source alone, which sets it to 0 on channels of the restarted
\* source type, and by no other step.
C32_CountersMonotonicButRestart ==
    [][\A c \in Chans :
           /\ db'[c].sc >= db[c].sc
           /\ \/ db'[c].fc >= db[c].fc
              \/ /\ last'.op = "restart_source" /\ last'.res = SrcOf(c)
                 /\ db'[c].fc = 0]_vars

\* restart_source has cleared the failures of channel 1 after the failure that
\* deactivated it, and channel 2 has its successes counted
C32_Witness ==
    /\ last.op = "restart_source"
    /\ db[1].fc = 0 /\ db[1].deacts = 1 /\ db[1].active
    /\ db[2].sc >= 1

(***************************************************************************)
(* The start and stop entry points of the manager, one pair per engine.    *)
(***************************************************************************)
\* the start entry point made one task, of the engine's kind and on the
\* manager's engine of that kind, and the table holds it under the engine's name
OneTaskUnder(T, key, sched) ==
    LET m == T.mtasks[key].task
    IN  /\ T.mtasks[key].held /\ m \in FreeMgrs(St)
        /\ sched # 0
        /\ T.mt[m] = [st |-> "new", kind |-> key, target |-> sched, cancel |-> FALSE]
        /\ \A m2 \in MgrIds \ {m} : T.mt[m2] = St.mt[m2]
        /\ \A k \in Keys \ {key} : T.mtasks[k] = St.mtasks[k]

\* C33: each of start_continuous, start_single_pass and start_digest_publisher,
\* when it does not refuse, creates exactly one task and stores it under its
\* engine's name; when the matching stop entry point returns, the name is not
\* in the task table and the engine's is_running is False, in every state the
\* earlier starts and stops can have led to
C33_StartStopEntryPoints ==
    /\ FreeMgrs(St) # {} =>
          /\ LET T == StartDigestPublisher(St)
             IN  OneTaskUnder(T, "digest_publisher", T.digSched)
          /\ (contSched = 0 => FreeInsts(St) # {}) /\ CheckMutualExclusion(St, "continuous") =>
                LET T == StartContinuous(St)
                IN  OneTaskUnder(T, "continuous", T.contSched)
          /\ (spSched = 0 => FreeInsts(St) # {}) /\ CheckMutualExclusion(St, "single_pass") =>
                LET T == StartSinglePass(St)
                IN  OneTaskUnder(T, "single_pass", T.spSched)
    /\ LET T == StopContinuous(St)
       IN  /\ T.mtasks["continuous"] = NoTask
           /\ contSched # 0 => ~T.inst[contSched].running
    /\ LET T == StopSinglePass(St)
       IN  /\ T.mtasks["single_pass"] = NoTask
           /\ T.spSched = 0
           /\ spSched # 0 => ~T.inst[spSched].running
    /\ LET T == StopDigestPublisher(St)
       IN  /\ T.mtasks["digest_publisher"] = NoTask
           /\ digSched # 0 => ~T.dg[digSched].running

\* stop_continuous has returned after start_continuous was accepted: the task it
\* cancelled has not run its handler yet, the name is gone, the engine is stopped
C33_Witness ==
    /\ last.op = "start_continuous" /\ last.res = "ok"
    /\ ~mtasks["continuous"].held
    /\ contSched # 0 /\ ~inst[contSched].running
    /\ \E m \in MgrIds : /\ mt[m].kind = "continuous" /\ mt[m].cancel
                         /\ mt[m].st = "run"

(***************************************************************************)
(* The status surface of the manager for the exclusive pair.               *)
(***************************************************************************)
\* _get_scheduler_status(scheduler_type)['running'] for "continuous" and
\* "single_pass": the engine's is_running when the manager holds the engine,
\* the liveness of the task under the key when it does not
GetSchedulerStatus(S, type) ==
    LET sched == IF type = "continuous" THEN S.contSched ELSE S.spSched
        task_running == TaskLive(S, type)
    IN  IF sched = 0 THEN task_running
        ELSE S.inst[sched].running

\* C34: active_scheduler of get_mutual_exclusion_status names an engine of the
\* exclusive pair exactly when the status of that engine reports running, and
\* is none exactly when the statuses of both report not running
C34_StatusConsistent ==
    /\ \A type \in {"continuous", "single_pass"} :
          GetMutualExclusionStatus(St) = type <=> GetSchedulerStatus(St, type)
    /\ GetMutualExclusionStatus(St) = "none" <=>
          (~GetSchedulerStatus(St, "continuous") /\ ~GetSchedulerStatus(St, "single_pass"))

(***************************************************************************)
(* A continuous engine by itself, started once and never stopped, with     *)
(* three telegram channels that are active at the start, the first two of  *)
(* them with no failure or with two failures recorded by an earlier run;    *)
(* the pipeline succeeds or fails.  The tasks are scheduled as in SpecPass. *)
(***************************************************************************)
InitCycle ==
    /\ InitManager("LOOP")
    /\ \E one \in {Chan(TRUE, 0), Chan(TRUE, FailureThreshold - 1)},
          two \in {Chan(TRUE, 0), Chan(TRUE, FailureThreshold - 1)} :
          db = [c \in Chans |-> IF c = 1 THEN one ELSE IF c = 2 THEN two
                                ELSE IF c = 3 THEN Chan(TRUE, 0) ELSE NoChan]
    /\ sheet = [res |-> "raise", chans |-> {}]
    /\ enabled = {"telegram"}
    /\ env = [poll |-> {TRUE, FALSE}, build |-> {"empty"}, publish |-> {"ok"},
              track |-> FALSE, stats |-> FALSE,
              news |-> {<<0, 0>>}]

\* the one start of the engine
CycleStart ==
    /\ last.op = "none"
    /\ ReqStartContinuous

NextCycle ==
    \/ CycleStart
    \/ \E m \in MgrIds : MgrTaskStart(m)
    \/ \E m \in MgrIds : MgrTick(m)
    \/ \E l \in LoopIds : LoopStart(l)
    \/ \E l \in LoopIds : LoopWake(l)
    \/ \E l \in LoopIds : PollReturn(l)

SpecCycle == InitCycle /\ [][NextCycle]_vars /\ FairPass

\* the pipeline is being called on the channel
Polling(c) == \E l \in LoopIds : loop[l].st = "poll" /\ loop[l].chan = c

\* the continuous engine runs and the channel is an active one of its list
Served(c) ==
    /\ contSched # 0 /\ inst[contSched].running
    /\ \E k \in 1..Len(inst[contSched].chans[SrcOf(c)]) :
          inst[contSched].chans[SrcOf(c)][k] = c
    /\ db[c].active

Visits(S, c) == S.db[c].sc + S.db[c].fc

\* C36: a visit of the pipeline that completes (items, no item, no poller, an
\* exception) adds one to exactly one of the success and failure counts of the
\* visited channel and leaves the counts of the other channels alone; a visit
\* cancelled during the call (stop of its engine, which cancels the loops of
\* its task table) changes no count
C36_OneCountPerVisit ==
    \A l \in LoopIds :
        loop[l].st = "poll" =>
            LET c == loop[l].chan
                i == loop[l].inst
            IN  /\ \A success \in BOOLEAN :
                   \A news \in IF success THEN env.news ELSE {<<0, 0>>} :
                      LET T == LoopOutcome(St, l, success, news)
                      IN  /\ \/ T.db[c].sc = db[c].sc + 1 /\ T.db[c].fc = db[c].fc
                             \/ T.db[c].sc = db[c].sc /\ T.db[c].fc = db[c].fc + 1
                          /\ Visits(T, c) = Visits(St, c) + 1
                          /\ \A c2 \in Chans \ {c} :
                                T.db[c2].sc = db[c2].sc /\ T.db[c2].fc = db[c2].fc
                /\ LET T == EngineStop(St, i)
                   IN  /\ inst[i].tasks[loop[l].src] = l => T.loop[l].st = "free"
                       /\ \A c2 \in Chans :
                             T.db[c2].sc = db[c2].sc /\ T.db[c2].fc = db[c2].fc

\* the second channel was visited with success and with a failure, and an
\* engine was stopped
C36_Witness ==
    /\ db[2].sc = 2 /\ db[2].fc = 1
    /\ \E i \in InstIds : inst[i].stopped

\* C37: the channel _get_next_channel returns, when it returns one, has
\* is_active True at the time of the call, in both modes and in every state
\* that outcomes, reconciliations and restarts lead to
C37_SelectsActiveOnly ==
    \A i \in InstIds, s \in SourceSet :
        inst[i].kind # "none" =>
            LET r == GetNextChannel(St, i, s)
            IN  r.ch # 0 => db[r.ch].exists /\ db[r.ch].active

\* a selection has been made for a source type whose list holds a channel that
\* is not active, and the next selection returns a channel
C37_Witness ==
    \E i \in InstIds, s \in SourceSet :
        /\ inst[i].kind # "none"
        /\ inst[i].handed[s] # <<>>
        /\ \E k \in 1..Len(inst[i].chans[s]) : ~db[inst[i].chans[s][k]].active
        /\ GetNextChannel(St, i, s).ch # 0

(***************************************************************************)
(* The completion hook of a single-pass engine that was stopped.           *)
(***************************************************************************)
\* the next step of a task of _run_scheduler, with the history recorded
RunStep(m) ==
    LET S0 == [St EXCEPT !.env.track = TRUE]
    IN  IF mt[m].cancel THEN Cancelled(S0, m)
        ELSE IF mt[m].st = "new" THEN RunScheduler(S0, m)
        ELSE MainLoop(S0, m)

\* C38: a single-pass engine that stop_single_pass has stopped and dropped
\* before its sources were exhausted fires its completion hook no more: no step
\* of a run of that engine enters the hook or starts a digest execution
C38_NoHookAfterStop ==
    \A m \in MgrIds :
        /\ mt[m].kind = "single_pass" /\ mt[m].st \in {"new", "run"}
        /\ mt[m].target # spSched
        /\ FreeRuns(St) # {}
        => LET i == mt[m].target
               T == RunStep(m)
           IN  /\ T.inst[i].hooks = inst[i].hooks
               /\ T.mt[m].st # "hook"

(***************************************************************************)
(* The cron timers of a publication scheduler.                             *)
(***************************************************************************)
\* the AsyncIOSchedulers a DigestScheduler has started and nothing has shut
\* down: the one it holds and those an earlier start() of it created
Timers(d) == (IF dg[d].sched = "live" THEN 1 ELSE 0) + dg[d].orphans

\* C39: a publication scheduler has at most one live cron timer at any time,
\* whatever starts, stops and restarts were requested, and once stop() has run
\* on it (is_running False) it has none that can fire
C39_OneCronTimer ==
    \A d \in DigIds :
        /\ Timers(d) <= 1
        /\ ~dg[d].running => Timers(d) = 0

====
